---- MODULE Spec2Model ----
(***************************************************************************)
(* A model of the EduGenius content engine:                                *)
(*   - CourseBuilder (components/CourseBuilder.tsx): the course tree, the  *)
(*     on-demand generation of lesson bodies and the in-flight id set;     *)
(*   - App (second half of components/CourseBuilder.tsx): the interactive  *)
(*     lesson generation pipeline with its progress reporting;             *)
(*   - LMSPlayer / InteractivePlayer: the audio playback resource.         *)
(* Every asynchronous function is a coroutine: the code between two awaits *)
(* is one atomic step, the awaited service call an in-flight request that  *)
(* the environment answers (success or failure) at any later time.         *)
(***************************************************************************)
EXTENDS Integers, Sequences, FiniteSets, Bags, TLC

\* ------------------------------------------------------------------ bounds
\* generateLessonBody calls that may be awaiting the service at once
MaxRequests == 2
\* startInteractiveGeneration calls that may be running at once
MaxAttempts == 2
\* largest number of steps in a lesson structure the service answers with
MaxSteps == 3
\* authoring calls in one editing session
MaxEdits == 3
\* bytes of a PCM clip handed to decodeAudioData
MaxBytes == 4
\* handleInitialGeneration calls running at once
MaxCreations == 2
\* audio sources a player instance creates during its life
MaxSources == 3
\* lessons of the played course, steps of the played interactive lesson
PlayerItems == 2

\* ------------------------------------------------------------- course tree
VARIABLES
    course,               \* useState<Course|null>: the active tree
    selectedLesson,       \* useState<{moduleId, lessonId}|null>
    loadingStatus,        \* useState(''): the status banner text
    generatingLessonIds,  \* useState<Set<string>>: the in-flight id set
    lessonRequests,       \* bag of generateLessonBody calls awaiting the service
    delivered,            \* history: lesson id -> <<payload of its last successful generation>>
    lastEvent             \* history: the completion the last step was ("none" otherwise)

courseVars == <<course, selectedLesson, loadingStatus, generatingLessonIds,
                lessonRequests, delivered, lastEvent>>

\* An optional quiz: undefined, or an array of questions (possibly empty).
NoQuiz == [def |-> FALSE, qs |-> <<>>]
QuizOf(qs) == [def |-> TRUE, qs |-> qs]

\* A lesson stub as handleInitialGeneration builds it: { ...l, content: '' }.
LessonStub(id, title, type) ==
    [id |-> id, title |-> title, type |-> type,
     content |-> "", videoUrl |-> "", quiz |-> NoQuiz]

\* The course the builder works on: two modules, one lesson of each generated kind.
InitialCourse ==
    [id |-> "c1", title |-> "Course",
     modules |-> <<
        [id |-> "m1", title |-> "M1",
         lessons |-> << LessonStub("l1", "T1", "text"), LessonStub("l2", "T2", "video") >>],
        [id |-> "m2", title |-> "M2",
         lessons |-> << LessonStub("l3", "T3", "quiz") >>] >>]

NoSelection == [moduleId |-> "", lessonId |-> ""]

ModuleIds == {"m1", "m2"}
LessonIds == {"l1", "l2", "l3"}

\* What the content service may answer, per kind of lesson body.
SampleQuiz ==
    QuizOf(<< [question |-> "Q", options |-> <<"A", "B">>, correctAnswers |-> <<0>>] >>)
ServiceResults(type) ==
    IF type = "video" THEN {"blob:v1"}
    ELSE IF type = "quiz" THEN {SampleQuiz}
    ELSE {"<p>a</p>"}

\* What the author may type into the content textarea.
TypedContents == {"typed"}

\* course.modules.find(m => m.id === moduleId)?.lessons.find(l => l.id === lessonId)
FindLesson(c, moduleId, lessonId) ==
    LET ms == {i \in 1..Len(c.modules) : c.modules[i].id = moduleId}
    IN  IF ms = {} THEN <<>>
        ELSE LET m  == c.modules[CHOOSE i \in ms : \A k \in ms : i <= k]
                 ls == {j \in 1..Len(m.lessons) : m.lessons[j].id = lessonId}
             IN  IF ls = {} THEN <<>>
                 ELSE << m.lessons[CHOOSE j \in ls : \A k \in ls : j <= k] >>

\* The lesson with this id wherever it is in the tree (<<>> when absent).
LessonById(c, lessonId) ==
    LET hits == {<<i, j>> \in (1..Len(c.modules)) \X (1..3) :
                    /\ j <= Len(c.modules[i].lessons)
                    /\ c.modules[i].lessons[j].id = lessonId}
    IN  IF hits = {} THEN <<>>
        ELSE LET h == CHOOSE x \in hits : TRUE
             IN  << c.modules[h[1]].lessons[h[2]] >>

\* The payload field that matches the lesson's type.
PayloadOf(l) ==
    IF l.type = "video" THEN l.videoUrl
    ELSE IF l.type = "quiz" THEN l.quiz
    ELSE l.content

\* hasContent of the sidebar: content || (quiz && quiz.length > 0) || videoUrl
HasContent(l) ==
    \/ l.content # ""
    \/ (l.quiz.def /\ Len(l.quiz.qs) > 0)
    \/ l.videoUrl # ""

\* course.modules.map(m => m.id === moduleId
\*     ? { ...m, lessons: m.lessons.map(l => l.id === lessonId ? { ...l, [field]: value } : l) }
\*     : m)
SetLessonField(c, moduleId, lessonId, field, value) ==
    [c EXCEPT !.modules =
        [i \in 1..Len(c.modules) |->
            IF c.modules[i].id = moduleId
            THEN [c.modules[i] EXCEPT !.lessons =
                    [j \in 1..Len(c.modules[i].lessons) |->
                        IF c.modules[i].lessons[j].id = lessonId
                        THEN [c.modules[i].lessons[j] EXCEPT ![field] = value]
                        ELSE c.modules[i].lessons[j]]]
            ELSE c.modules[i]]]

\* (mutant) a completion that does not write its result into the tree
FoldResultSkipped(req, result) == req.course

\* The tree generateLessonBody hands to setCourse on success: the result is folded
\* into the course of the closure (req.course), by the type of the closure's lesson.
FoldResult(req, result) ==
    IF req.type = "video"
    THEN SetLessonField(req.course, req.moduleId, req.lessonId, "videoUrl", result)
    ELSE IF req.type = "quiz"
    THEN SetLessonField(req.course, req.moduleId, req.lessonId, "quiz", result)
    ELSE SetLessonField(req.course, req.moduleId, req.lessonId, "content", result)

\* (mutant) a catch block that puts the tree of the closure back
CourseAfterFailureRestores(cur, req) == req.course

\* The tree after the catch block of generateLessonBody: it calls no setCourse.
CourseAfterFailure(cur, req) == cur

\* (mutant) a finally block that forgets to delete the id
RemoveInFlightForgets(ids, lessonId) == ids

\* finally: setGeneratingLessonIds(prev => { next = new Set(prev); next.delete(id) })
RemoveInFlight(ids, lessonId) == ids \ {lessonId}

\* setGeneratingLessonIds(prev => new Set(prev).add(lessonId))
AddInFlight(ids, lessonId) == ids \cup {lessonId}

\* updateLessonContent: { ...l, content } at the addressed lesson
UpdateLessonContentTree(c, moduleId, lessonId, content) ==
    SetLessonField(c, moduleId, lessonId, "content", content)

\* The sidebar generate button is clickable: !(isGeneratingThis || !!loadingStatus)
SidebarEnabled(lessonId) ==
    /\ lessonId \notin generatingLessonIds
    /\ loadingStatus = ""

\* activeLesson of the render: the selected lesson looked up in the current course
ActiveLesson ==
    IF selectedLesson = NoSelection THEN <<>>
    ELSE FindLesson(course, selectedLesson.moduleId, selectedLesson.lessonId)

\* The 'Regenerate Clip' button is rendered (it has no disabled attribute).
RegenerateClipShown ==
    /\ ActiveLesson # <<>>
    /\ ActiveLesson[1].type = "video"
    /\ ActiveLesson[1].videoUrl # ""

InFlightFor(lessonId) ==
    {r \in BagToSet(lessonRequests) : r.lessonId = lessonId}

\* Number of generateLessonBody calls for this lesson that await the service.
OutstandingFor(lessonId) ==
    LET rs == InFlightFor(lessonId)
        RECURSIVE Sum(_)
        Sum(S) == IF S = {} THEN 0
                  ELSE LET r == CHOOSE x \in S : TRUE
                       IN  CopiesIn(r, lessonRequests) + Sum(S \ {r})
    IN  Sum(rs)

Event(kind, lessonId) == [kind |-> kind, lessonId |-> lessonId]

\* generateLessonBody(moduleId, lessonId) up to its await.
GenerateLessonBodyStart(moduleId, lessonId) ==
    /\ BagCardinality(lessonRequests) < MaxRequests
    /\ LET found == FindLesson(course, moduleId, lessonId)
       IN  /\ found # <<>>
           /\ generatingLessonIds' = AddInFlight(generatingLessonIds, lessonId)
           /\ loadingStatus' = "AI is crafting: " \o found[1].title \o "..."
           /\ lessonRequests' = lessonRequests (+)
                 SetToBag({[moduleId |-> moduleId, lessonId |-> lessonId,
                            type |-> found[1].type, course |-> course]})
    /\ lastEvent' = Event("none", "")
    /\ UNCHANGED <<course, selectedLesson, delivered>>

\* Click on a lesson row of the sidebar.
SelectLesson(moduleId, lessonId) ==
    /\ FindLesson(course, moduleId, lessonId) # <<>>
    /\ selectedLesson # [moduleId |-> moduleId, lessonId |-> lessonId]
    /\ selectedLesson' = [moduleId |-> moduleId, lessonId |-> lessonId]
    /\ lastEvent' = Event("none", "")
    /\ UNCHANGED <<course, loadingStatus, generatingLessonIds, lessonRequests, delivered>>

\* Click on the wand button of a sidebar row.
SidebarGenerate(moduleId, lessonId) ==
    /\ SidebarEnabled(lessonId)
    /\ GenerateLessonBodyStart(moduleId, lessonId)

\* Click on 'Regenerate Clip' in the editor pane.
RegenerateClip ==
    /\ RegenerateClipShown
    /\ GenerateLessonBodyStart(selectedLesson.moduleId, ActiveLesson[1].id)

\* The awaited service call resolves: try body after the await, then finally.
GenerateSucceed(req, result) ==
    /\ BagIn(req, lessonRequests)
    /\ result \in ServiceResults(req.type)
    /\ course' = FoldResult(req, result)
    /\ generatingLessonIds' = RemoveInFlight(generatingLessonIds, req.lessonId)
    /\ loadingStatus' = ""
    /\ lessonRequests' = lessonRequests (-) SetToBag({req})
    /\ delivered' = [delivered EXCEPT ![req.lessonId] = <<result>>]
    /\ lastEvent' = Event("success", req.lessonId)
    /\ UNCHANGED selectedLesson

\* The awaited service call rejects: catch, then finally.
GenerateFail(req) ==
    /\ BagIn(req, lessonRequests)
    /\ course' = CourseAfterFailure(course, req)
    /\ generatingLessonIds' = RemoveInFlight(generatingLessonIds, req.lessonId)
    /\ loadingStatus' = ""
    /\ lessonRequests' = lessonRequests (-) SetToBag({req})
    /\ lastEvent' = Event("failure", req.lessonId)
    /\ UNCHANGED <<selectedLesson, delivered>>

\* Typing in the content textarea (rendered for a text lesson that has content).
UpdateLessonContent(content) ==
    /\ ActiveLesson # <<>>
    /\ ActiveLesson[1].type \notin {"quiz", "video"}
    /\ ActiveLesson[1].content # ""
    /\ ActiveLesson[1].content # content
    /\ course' = UpdateLessonContentTree(course, selectedLesson.moduleId,
                                         ActiveLesson[1].id, content)
    /\ delivered' = [delivered EXCEPT ![ActiveLesson[1].id] = <<>>]
    /\ lastEvent' = Event("none", "")
    /\ UNCHANGED <<selectedLesson, loadingStatus, generatingLessonIds, lessonRequests>>

CourseInit ==
    /\ course = InitialCourse
    /\ selectedLesson = NoSelection
    /\ loadingStatus = ""
    /\ generatingLessonIds = {}
    /\ lessonRequests = EmptyBag
    /\ delivered = [l \in LessonIds |-> <<>>]
    /\ lastEvent = Event("none", "")

CompleteFor(lessonId) ==
    \E req \in InFlightFor(lessonId) :
        \/ \E result \in ServiceResults(req.type) : GenerateSucceed(req, result)
        \/ GenerateFail(req)

\* ---------------------------------------- malformed service responses
\* Responses that do not have the contracted shape, as the service functions
\* of main.tsx see them.
\*  quiz:  text that is not JSON, or JSON whose items lack correctAnswers;
\*  text:  a response without text;
\*  video: a finished operation without generatedVideos[0].video.uri.
MalformedResponses(type) ==
    IF type = "quiz"
    THEN {[shape |-> "not-json"], [shape |-> "item-without-correctAnswers"]}
    ELSE IF type = "video" THEN {[shape |-> "no-uri"]}
    ELSE {[shape |-> "no-text"]}

\* What the awaited service function does with such a response: it throws
\* (ok = FALSE) or returns a value to generateLessonBody (ok = TRUE).
\*  generateLessonContent line 237: JSON.parse(response.text) throws on text that
\*    is not JSON and returns any other JSON value unchecked; response.text.trim()
\*    throws when text is undefined.
\*  generateCourseTeaser lines 309-313: downloadLink is undefined and
\*    fetch(`${downloadLink}&key=...`) is sent all the same; a fetch that resolves
\*    (any HTTP status) yields an object URL of the body, one that rejects throws.
ServiceOutcomes(type, response) ==
    IF response.shape = "not-json" \/ response.shape = "no-text"
    THEN {[ok |-> FALSE, value |-> ""]}
    ELSE IF response.shape = "item-without-correctAnswers"
    THEN {[ok |-> TRUE, value |-> QuizOf(<< [question |-> "Q", options |-> <<"A", "B">>] >>)]}
    ELSE {[ok |-> FALSE, value |-> ""], [ok |-> TRUE, value |-> "blob:undefined"]}

\* The awaited service call met a malformed response: generateLessonBody goes on
\* after the await with the value returned (lines 146-174), or to its catch.
ReceiveMalformed(req, response) ==
    /\ BagIn(req, lessonRequests)
    /\ response \in MalformedResponses(req.type)
    /\ \E out \in ServiceOutcomes(req.type, response) :
          /\ course' = IF out.ok THEN FoldResult(req, out.value)
                       ELSE CourseAfterFailure(course, req)
          /\ delivered' = IF out.ok THEN [delivered EXCEPT ![req.lessonId] = <<out.value>>]
                          ELSE delivered
          /\ lastEvent' = Event(IF out.ok THEN "malformed-folded" ELSE "malformed-failed",
                                req.lessonId)
    /\ generatingLessonIds' = RemoveInFlight(generatingLessonIds, req.lessonId)
    /\ loadingStatus' = ""
    /\ lessonRequests' = lessonRequests (-) SetToBag({req})
    /\ UNCHANGED selectedLesson

\* ------------------------------------------------ interactive generation (App)
VARIABLES
    currentView,              \* useState: 'dashboard' | 'interactive_play' (the views used here)
    interactiveTopic,         \* useState(''): the topic field
    isGeneratingInteractive,  \* useState(false)
    genProgress,              \* useState(0): a number, kept as an exact fraction
    genStatus,                \* useState('')
    interactiveLesson,        \* useState<InteractiveLesson|null>
    attempts,                 \* bag of running startInteractiveGeneration calls (their frames)
    lastGen                   \* history: what the last step did to an attempt ("none" otherwise)

interactiveVars == <<currentView, interactiveTopic, isGeneratingInteractive, genProgress,
                     genStatus, interactiveLesson, attempts, lastGen>>

RECURSIVE Gcd(_, _)
Gcd(a, b) == IF b = 0 THEN a ELSE Gcd(b, a % b)

\* The number num/den in lowest terms.
Frac(num, den) ==
    LET g == Gcd(num, den) IN [num |-> num \div g, den |-> den \div g]

FracLeq(x, y) == x.num * y.den <= y.num * x.den

\* setGenProgress(40 + (i + 1) * (60 / lesson.steps.length)), k = i + 1 steps done of n
ProgressAfterStepSkewed(k, n) == Frac(40 * n + 60 * (k - 1), n)

ProgressAfterStep(k, n) == Frac(40 * n + 60 * k, n)

\* The fields of a LessonStep that the pipeline reads or writes.
StepOf(i) ==
    [id |-> "s" \o ToString(i),
     explanation |-> "explanation" \o ToString(i),
     imagePrompt |-> "prompt" \o ToString(i),
     imageUrl |-> "", audioData |-> ""]

\* generateInteractiveLessonStructure's answer with n steps.
LessonOf(n) ==
    [id |-> "il", topic |-> "Triangles",
     steps |-> [i \in 1..n |-> StepOf(i)],
     quiz |-> << [question |-> "Q", options |-> <<"A", "B">>, correctAnswers |-> <<0>>] >>]

StructureResponses == {LessonOf(n) : n \in 0..MaxSteps}

\* interactiveLesson === null; also the lesson of a frame before the structure returned
NoLesson == [id |-> "", topic |-> "", steps |-> <<>>, quiz |-> <<>>]

\* generateIllustration's answer: `data:image/png;base64,${...}` for this prompt
Illustration(prompt) == "data:image/png;base64," \o prompt

\* generateNarration's answer: the base64 PCM of this text
Narration(text) == "pcm:" \o text

StructureRequest == [kind |-> "structure", step |-> 0]
IllustrationRequest(i) == [kind |-> "illustration", step |-> i]
NarrationRequest(i) == [kind |-> "narration", step |-> i]

\* (mutant) both assets of a step requested at once
RequestsForStepParallel(i) == {IllustrationRequest(i), NarrationRequest(i)}

\* The requests issued on entering loop iteration i (0-based): the illustration only.
RequestsForStep(i) == {IllustrationRequest(i)}

\* (mutant) stepsWithAssets.unshift(...)
PushStepInFront(steps, step, imageUrl, audioData) ==
    <<[step EXCEPT !.imageUrl = imageUrl, !.audioData = audioData]>> \o steps

\* stepsWithAssets.push({ ...step, imageUrl, audioData })
PushStep(steps, step, imageUrl, audioData) ==
    Append(steps, [step EXCEPT !.imageUrl = imageUrl, !.audioData = audioData])

\* { ...lesson, steps: stepsWithAssets }
AssembleLesson(lesson, stepsWithAssets) == [lesson EXCEPT !.steps = stepsWithAssets]

\* (mutant) a catch block that surfaces what was generated so far
LessonAfterFailurePartial(cur, a) == AssembleLesson(a.lesson, a.stepsWithAssets)

\* interactiveLesson after the catch block: it calls no setInteractiveLesson.
LessonAfterFailure(cur, a) == cur

\* The frame of a call that awaits the structure request.
NewAttempt ==
    [pc |-> "structure", lesson |-> NoLesson, i |-> 0, imageUrl |-> "",
     stepsWithAssets |-> <<>>, pending |-> {StructureRequest}]

GenEvent(kind, k, n) == [kind |-> kind, k |-> k, n |-> n]
NoGenEvent == GenEvent("none", 0, 0)

\* A resumed call is between its last await and its return: nothing else runs meanwhile.
ContinuationRunning == \E a \in BagToSet(attempts) : a.pc = "surface"

ReplaceAttempt(a, b) == (attempts (-) SetToBag({a})) (+) SetToBag({b})

\* startInteractiveGeneration() up to its first await.
StartInteractiveGeneration ==
    /\ ~ContinuationRunning
    /\ interactiveTopic # ""
    /\ BagCardinality(attempts) < MaxAttempts
    /\ isGeneratingInteractive' = TRUE
    /\ genProgress' = Frac(10, 1)
    /\ genStatus' = "Brainstorming sequence..."
    /\ attempts' = attempts (+) SetToBag({NewAttempt})
    /\ lastGen' = GenEvent("started", 0, 0)
    /\ UNCHANGED <<currentView, interactiveTopic, interactiveLesson>>

\* Click on 'Generate Lesson': disabled={isGeneratingInteractive || !interactiveTopic}
ClickGenerateLesson ==
    /\ currentView = "dashboard"
    /\ ~isGeneratingInteractive
    /\ StartInteractiveGeneration

\* Enter in the topic field: onKeyPress={e => e.key === 'Enter' && startInteractiveGeneration()}
PressEnterInTopic ==
    /\ currentView = "dashboard"
    /\ StartInteractiveGeneration

\* Typing in the topic field.
SetInteractiveTopic(topic) ==
    /\ ~ContinuationRunning
    /\ currentView = "dashboard"
    /\ interactiveTopic # topic
    /\ interactiveTopic' = topic
    /\ lastGen' = NoGenEvent
    /\ UNCHANGED <<currentView, isGeneratingInteractive, genProgress, genStatus,
                   interactiveLesson, attempts>>

\* onExit of the InteractivePlayer.
ExitInteractivePlayer ==
    /\ ~ContinuationRunning
    /\ currentView = "interactive_play"
    /\ currentView' = "dashboard"
    /\ lastGen' = NoGenEvent
    /\ UNCHANGED <<interactiveTopic, isGeneratingInteractive, genProgress, genStatus,
                   interactiveLesson, attempts>>

\* The structure request resolves: lines 748-756 (or 748-753 and the loop exit).
StructureReturns(a, lesson) ==
    /\ ~ContinuationRunning
    /\ a.pc = "structure" /\ StructureRequest \in a.pending
    /\ genProgress' = Frac(40, 1)
    /\ IF Len(lesson.steps) = 0
       THEN /\ genStatus' = "Architecting visuals and audio..."
            /\ attempts' = ReplaceAttempt(a,
                  [a EXCEPT !.pc = "surface", !.lesson = lesson, !.pending = {}])
       ELSE /\ genStatus' = "Step 1: Generating illustration..."
            /\ attempts' = ReplaceAttempt(a,
                  [a EXCEPT !.pc = "illustration", !.lesson = lesson, !.i = 0,
                            !.pending = RequestsForStep(0)])
    /\ lastGen' = GenEvent("structure", 0, Len(lesson.steps))
    /\ UNCHANGED <<currentView, interactiveTopic, isGeneratingInteractive, interactiveLesson>>

\* The illustration request of step i resolves: lines 756-759.
IllustrationReturns(a) ==
    /\ ~ContinuationRunning
    /\ a.pc = "illustration" /\ IllustrationRequest(a.i) \in a.pending
    /\ genStatus' = "Step " \o ToString(a.i + 1) \o ": Synthesizing voice explanation..."
    /\ attempts' = ReplaceAttempt(a,
          [a EXCEPT !.pc = "narration",
                    !.imageUrl = Illustration(a.lesson.steps[a.i + 1].imagePrompt),
                    !.pending = (a.pending \ {IllustrationRequest(a.i)})
                                    \cup {NarrationRequest(a.i)}])
    /\ lastGen' = GenEvent("illustration", a.i + 1, Len(a.lesson.steps))
    /\ UNCHANGED <<currentView, interactiveTopic, isGeneratingInteractive, genProgress,
                   interactiveLesson>>

\* The narration request of step i resolves: lines 759-762, then the next iteration
\* up to its await (753-756) or the loop exit.
NarrationReturns(a) ==
    /\ ~ContinuationRunning
    /\ a.pc = "narration" /\ NarrationRequest(a.i) \in a.pending
    /\ LET n     == Len(a.lesson.steps)
           step  == a.lesson.steps[a.i + 1]
           steps == PushStep(a.stepsWithAssets, step, a.imageUrl,
                             Narration(step.explanation))
       IN  /\ genProgress' = ProgressAfterStep(a.i + 1, n)
           /\ IF a.i + 1 < n
              THEN /\ genStatus' = "Step " \o ToString(a.i + 2)
                                      \o ": Generating illustration..."
                   /\ attempts' = ReplaceAttempt(a,
                         [a EXCEPT !.pc = "illustration", !.i = a.i + 1,
                                   !.imageUrl = "", !.stepsWithAssets = steps,
                                   !.pending = RequestsForStep(a.i + 1)])
              ELSE /\ genStatus' = genStatus
                   /\ attempts' = ReplaceAttempt(a,
                         [a EXCEPT !.pc = "surface", !.i = a.i + 1,
                                   !.stepsWithAssets = steps, !.pending = {}])
           /\ lastGen' = GenEvent("step", a.i + 1, n)
    /\ UNCHANGED <<currentView, interactiveTopic, isGeneratingInteractive, interactiveLesson>>

\* After the loop: lines 765-766, then finally (771-773), in the same continuation.
SurfaceLesson(a) ==
    /\ a.pc = "surface"
    /\ interactiveLesson' = AssembleLesson(a.lesson, a.stepsWithAssets)
    /\ currentView' = "interactive_play"
    /\ isGeneratingInteractive' = FALSE
    /\ genProgress' = Frac(0, 1)
    /\ genStatus' = ""
    /\ attempts' = attempts (-) SetToBag({a})
    /\ lastGen' = GenEvent("surfaced", a.i, Len(a.lesson.steps))
    /\ UNCHANGED interactiveTopic

\* The awaited request rejects: catch (767-770), then finally (771-773).
InteractiveRequestFails(a) ==
    /\ ~ContinuationRunning
    /\ a.pending # {}
    /\ interactiveLesson' = LessonAfterFailure(interactiveLesson, a)
    /\ isGeneratingInteractive' = FALSE
    /\ genProgress' = Frac(0, 1)
    /\ genStatus' = ""
    /\ attempts' = attempts (-) SetToBag({a})
    /\ lastGen' = GenEvent("failed", Len(a.stepsWithAssets), Len(a.lesson.steps))
    /\ UNCHANGED <<currentView, interactiveTopic>>

InteractiveInit ==
    /\ currentView = "dashboard"
    /\ interactiveTopic = ""
    /\ isGeneratingInteractive = FALSE
    /\ genProgress = Frac(0, 1)
    /\ genStatus = ""
    /\ interactiveLesson = NoLesson
    /\ attempts = EmptyBag
    /\ lastGen = NoGenEvent

\* ------------------------------------- playback (LMSPlayer, InteractivePlayer)
\* One player instance from mount to unmount and beyond (its pending promises
\* outlive it). decodeAudioData is an async function without an await of its own:
\* the caller's `await decodeAudioData(...)` resumes in a microtask, before any
\* other event is handled, so decode and start belong to the step that reaches them.
VARIABLES
    player,             \* which component the App rendered: "none" | "lms" | "interactive"
    mounted,            \* the component is mounted
    position,           \* LMS: index of the displayed lesson; interactive: currentStepIndex + 1
    showQuiz,           \* InteractivePlayer: useState(false)
    isNarrating,        \* LMSPlayer: useState(false)
    isPlaying,          \* InteractivePlayer: useState(false)
    audioSourceRef,     \* useRef<AudioBufferSourceNode|null>: 0 is null
    sources,            \* every AudioBufferSourceNode: "unused" | "playing" | "stopped" | "ended"
    endedPending,       \* sources whose 'ended' event is queued and not yet handled
    narrationRequests,  \* bag of playNarration calls awaiting generateNarration (the lesson each is for)
    lastAudio           \* history: what the last step did to the audio ("none" otherwise)

playerVars == <<player, mounted, position, showQuiz, isNarrating, isPlaying,
                audioSourceRef, sources, endedPending, narrationRequests, lastAudio>>

SourceIds == 1..MaxSources

Playing(srcs) == {s \in SourceIds : srcs[s] = "playing"}

\* The source ctx.createBufferSource() returns: one that did not exist before.
FreshSource == CHOOSE s \in SourceIds :
                  sources[s] = "unused" /\ \A t \in SourceIds : sources[t] = "unused" => s <= t

CanCreateSource == \E s \in SourceIds : sources[s] = "unused"

\* AudioBufferSourceNode.stop(): a playing source stops (its 'ended' event follows);
\* a source that stopped or ended already is left as it is.
StopSource(srcs, s) ==
    IF s # 0 /\ srcs[s] = "playing" THEN [srcs EXCEPT ![s] = "stopped"] ELSE srcs

\* The 'ended' events queued once stop() has been called on s.
EndedAfterStop(queue, srcs, s) ==
    IF s # 0 /\ srcs[s] = "playing" THEN queue \cup {s} ELSE queue

\* InteractivePlayer.stopAudio: if (ref.current) { ref.current.stop(); ref.current = null }
StopAudio(srcs, ref) == StopSource(srcs, ref)

\* LMSPlayer.stopNarration: the same with its own ref
StopNarration(srcs, ref) == StopSource(srcs, ref)

\* (mutant) toggleAudio without its stopAudio() before the start
StartAudioWithoutStop(srcs, ref, new) == [srcs EXCEPT ![new] = "playing"]

\* toggleAudio, lines 74-81: stopAudio(); source = ctx.createBufferSource(); source.start()
StartAudio(srcs, ref, new) == [StopAudio(srcs, ref) EXCEPT ![new] = "playing"]

\* playNarration, lines 75-82: stopNarration(); source = ...; source.start()
StartNarration(srcs, ref, new) == [StopNarration(srcs, ref) EXCEPT ![new] = "playing"]

\* App: 'Launch Course' renders the LMSPlayer; its first effect shows lesson 1.
LaunchCourse ==
    /\ player = "none"
    /\ player' = "lms"
    /\ mounted' = TRUE
    /\ lastAudio' = "none"
    /\ UNCHANGED <<position, showQuiz, isNarrating, isPlaying, audioSourceRef, sources,
                   endedPending, narrationRequests>>

\* App: currentView 'interactive_play' renders the InteractivePlayer.
ShowInteractivePlayer ==
    /\ player = "none"
    /\ player' = "interactive"
    /\ mounted' = TRUE
    /\ lastAudio' = "none"
    /\ UNCHANGED <<position, showQuiz, isNarrating, isPlaying, audioSourceRef, sources,
                   endedPending, narrationRequests>>

\* LMSPlayer: click on 'Listen' (disabled={isNarrating || !currentLesson.content}),
\* playNarration up to its await.
PlayNarration ==
    /\ player = "lms" /\ mounted
    /\ ~isNarrating
    /\ isNarrating' = TRUE
    /\ narrationRequests' = narrationRequests (+) SetToBag({position})
    /\ lastAudio' = "requested"
    /\ UNCHANGED <<player, mounted, position, showQuiz, isPlaying, audioSourceRef, sources,
                   endedPending>>

\* generateNarration resolves and the audio decodes: playNarration lines 66-82.
NarrationArrives(lesson) ==
    /\ player = "lms"
    /\ BagIn(lesson, narrationRequests)
    /\ CanCreateSource
    /\ sources' = StartNarration(sources, audioSourceRef, FreshSource)
    /\ endedPending' = EndedAfterStop(endedPending, sources, audioSourceRef)
    /\ audioSourceRef' = FreshSource
    /\ narrationRequests' = narrationRequests (-) SetToBag({lesson})
    /\ lastAudio' = IF audioSourceRef # 0 /\ sources[audioSourceRef] = "playing"
                    THEN "replaced" ELSE "started"
    /\ UNCHANGED <<player, mounted, position, showQuiz, isNarrating, isPlaying>>

\* generateNarration rejects or the decode throws: the catch block, lines 84-87.
NarrationFails(lesson) ==
    /\ player = "lms"
    /\ BagIn(lesson, narrationRequests)
    /\ isNarrating' = FALSE
    /\ narrationRequests' = narrationRequests (-) SetToBag({lesson})
    /\ lastAudio' = "failed"
    /\ UNCHANGED <<player, mounted, position, showQuiz, isPlaying, audioSourceRef, sources,
                   endedPending>>

\* LMSPlayer: another lesson is displayed (sidebar, Next, Previous); the effect of
\* lines 23-31 runs its cleanup and its body: stopNarration() both times.
ShowLesson(lesson) ==
    /\ player = "lms" /\ mounted
    /\ lesson # position
    /\ position' = lesson
    /\ sources' = StopNarration(sources, audioSourceRef)
    /\ endedPending' = EndedAfterStop(endedPending, sources, audioSourceRef)
    /\ audioSourceRef' = 0
    /\ lastAudio' = IF audioSourceRef # 0 /\ sources[audioSourceRef] = "playing"
                    THEN "stopped" ELSE "none"
    /\ UNCHANGED <<player, mounted, showQuiz, isNarrating, isPlaying, narrationRequests>>

\* InteractivePlayer: click on the round button while isPlaying: lines 56-60.
ToggleAudioStop ==
    /\ player = "interactive" /\ mounted /\ ~showQuiz
    /\ isPlaying
    /\ sources' = StopAudio(sources, audioSourceRef)
    /\ endedPending' = EndedAfterStop(endedPending, sources, audioSourceRef)
    /\ audioSourceRef' = 0
    /\ isPlaying' = FALSE
    /\ lastAudio' = IF audioSourceRef # 0 /\ sources[audioSourceRef] = "playing"
                    THEN "stopped" ELSE "none"
    /\ UNCHANGED <<player, mounted, position, showQuiz, isNarrating, narrationRequests>>

\* InteractivePlayer: click on the round button while not isPlaying: lines 62-82.
ToggleAudioPlay ==
    /\ player = "interactive" /\ mounted /\ ~showQuiz
    /\ ~isPlaying
    /\ CanCreateSource
    /\ sources' = StartAudio(sources, audioSourceRef, FreshSource)
    /\ endedPending' = EndedAfterStop(endedPending, sources, audioSourceRef)
    /\ audioSourceRef' = FreshSource
    /\ isPlaying' = TRUE
    /\ lastAudio' = IF audioSourceRef # 0 /\ sources[audioSourceRef] = "playing"
                    THEN "replaced" ELSE "started"
    /\ UNCHANGED <<player, mounted, position, showQuiz, isNarrating, narrationRequests>>

\* The effect of InteractivePlayer lines 25-30 after currentStepIndex or showQuiz
\* changed: cleanup stopAudio(), then setIsPlaying(false) and stopAudio().
StepChangeEffect ==
    /\ sources' = StopAudio(sources, audioSourceRef)
    /\ endedPending' = EndedAfterStop(endedPending, sources, audioSourceRef)
    /\ audioSourceRef' = 0
    /\ isPlaying' = FALSE
    /\ lastAudio' = IF audioSourceRef # 0 /\ sources[audioSourceRef] = "playing"
                    THEN "stopped" ELSE "none"

\* InteractivePlayer.handleNext (the footer button is rendered while !showQuiz)
HandleNext ==
    /\ player = "interactive" /\ mounted /\ ~showQuiz
    /\ IF position < PlayerItems
       THEN position' = position + 1 /\ showQuiz' = showQuiz
       ELSE showQuiz' = TRUE /\ position' = position
    /\ StepChangeEffect
    /\ UNCHANGED <<player, mounted, isNarrating, narrationRequests>>

\* InteractivePlayer.handlePrev (disabled={!showQuiz && currentStepIndex === 0})
HandlePrev ==
    /\ player = "interactive" /\ mounted
    /\ showQuiz \/ position > 1
    /\ IF showQuiz
       THEN showQuiz' = FALSE /\ position' = position
       ELSE position' = position - 1 /\ showQuiz' = showQuiz
    /\ StepChangeEffect
    /\ UNCHANGED <<player, mounted, isNarrating, narrationRequests>>

\* onExit: the player unmounts and the cleanup of its effect stops the audio.
ExitPlayer ==
    /\ player # "none" /\ mounted
    /\ mounted' = FALSE
    /\ sources' = StopSource(sources, audioSourceRef)
    /\ endedPending' = EndedAfterStop(endedPending, sources, audioSourceRef)
    /\ audioSourceRef' = 0
    /\ lastAudio' = IF audioSourceRef # 0 /\ sources[audioSourceRef] = "playing"
                    THEN "stopped" ELSE "none"
    /\ UNCHANGED <<player, position, showQuiz, isNarrating, isPlaying, narrationRequests>>

\* A playing clip reaches its end: the audio stops and its 'ended' event is queued.
ClipEnds(s) ==
    /\ sources[s] = "playing"
    /\ sources' = [sources EXCEPT ![s] = "ended"]
    /\ endedPending' = endedPending \cup {s}
    /\ lastAudio' = "finished"
    /\ UNCHANGED <<player, mounted, position, showQuiz, isNarrating, isPlaying,
                   audioSourceRef, narrationRequests>>

\* The 'ended' event of s is handled: source.onended = () => setIsPlaying(false)
\* (InteractivePlayer line 79), setIsNarrating(false) (LMSPlayer line 80).
EndedEvent(s) ==
    /\ s \in endedPending
    /\ endedPending' = endedPending \ {s}
    /\ IF player = "lms"
       THEN isNarrating' = FALSE /\ isPlaying' = isPlaying
       ELSE isPlaying' = FALSE /\ isNarrating' = isNarrating
    /\ lastAudio' = "ended-event"
    /\ UNCHANGED <<player, mounted, position, showQuiz, audioSourceRef, sources,
                   narrationRequests>>

\* The flag the player's button shows: isNarrating (LMSPlayer line 152),
\* isPlaying (InteractivePlayer line 162).
PlayingFlag == IF player = "lms" THEN isNarrating ELSE isPlaying

PlayerInit ==
    /\ player = "none"
    /\ mounted = FALSE
    /\ position = 1
    /\ showQuiz = FALSE
    /\ isNarrating = FALSE
    /\ isPlaying = FALSE
    /\ audioSourceRef = 0
    /\ sources = [s \in SourceIds |-> "unused"]
    /\ endedPending = {}
    /\ narrationRequests = EmptyBag
    /\ lastAudio = "none"

\* ------------------------------------- learner quiz (LMSPlayer, InteractivePlayer)
VARIABLES
    quizHost,       \* the player showing a quiz: "none" | "lms" | "interactive"
    learnerQuiz,    \* the questions shown: lesson.quiz (QuizQuestion[])
    userAnswers,    \* useState<Record<number, number[]>>({}): question index -> selected indexes
    quizSubmitted,  \* InteractivePlayer quizSubmitted, LMSPlayer showResults
    lastToggle      \* history: <<qIdx, oIdx>> of the toggleAnswer call the last step was, else <<>>

quizVars == <<quizHost, learnerQuiz, userAnswers, quizSubmitted, lastToggle>>

\* The elements of a JavaScript array.
Range(seq) == {seq[i] : i \in 1..Len(seq)}

\* array.filter(i => i !== x)
FilterOut(seq, x) == SelectSeq(seq, LAMBDA i : i # x)

\* Quizzes the learner may be shown (indexes are 0-based as in the code).
QuizSamples ==
    { << [question |-> "Q0", options |-> <<"A", "B", "C">>, correctAnswers |-> <<0>>],
         [question |-> "Q1", options |-> <<"A", "B", "C">>, correctAnswers |-> <<2, 1>>] >>,
      << [question |-> "Q0", options |-> <<"A", "B">>, correctAnswers |-> <<0, 1>>],
         [question |-> "Q1", options |-> <<"A", "B">>, correctAnswers |-> <<1>>] >> }

QuestionIndexes(quiz) == 0..(Len(quiz) - 1)
OptionIndexes(quiz, qIdx) == 0..(Len(quiz[qIdx + 1].options) - 1)

\* useState({}): prev[qIdx] || [] is the empty array for every question
NoAnswers(quiz) == [qIdx \in QuestionIndexes(quiz) |-> <<>>]

\* (mutant) a toggle that only ever selects
ToggleSelectionAddOnly(current, oIdx) == Append(current, oIdx)

\* current.includes(oIdx) ? current.filter(i => i !== oIdx) : [...current, oIdx]
ToggleSelection(current, oIdx) ==
    IF oIdx \in Range(current) THEN FilterOut(current, oIdx) ELSE Append(current, oIdx)

\* setUserAnswers(prev => ({ ...prev, [qIdx]: updated }))
ToggledAnswers(prev, qIdx, oIdx) ==
    [prev EXCEPT ![qIdx] = ToggleSelection(prev[qIdx], oIdx)]

\* (mutant) a score that drops the comparison of the lengths
IsCorrectWithoutLength(answers, q) == \A a \in Range(answers) : a \in Range(q.correctAnswers)

\* answers.length === q.correctAnswers.length && answers.every(a => q.correctAnswers.includes(a))
IsCorrect(answers, q) ==
    /\ Len(answers) = Len(q.correctAnswers)
    /\ \A a \in Range(answers) : a \in Range(q.correctAnswers)

\* lesson.quiz.reduce((acc, q, idx) => acc + (isCorrect ? 1 : 0), 0)
RECURSIVE ScoreUpTo(_, _, _)
ScoreUpTo(quiz, answers, n) ==
    IF n = 0 THEN 0
    ELSE ScoreUpTo(quiz, answers, n - 1)
         + (IF IsCorrect(answers[n - 1], quiz[n]) THEN 1 ELSE 0)

\* const score = quizSubmitted ? lesson.quiz.reduce(...) : 0
Score == IF quizSubmitted THEN ScoreUpTo(learnerQuiz, userAnswers, Len(learnerQuiz)) ELSE 0

\* A quiz comes on screen: a quiz lesson in LMSPlayer, the final assessment
\* (showQuiz) in InteractivePlayer.
OpenQuiz(host, quiz) ==
    /\ quizHost = "none"
    /\ quizHost' = host
    /\ learnerQuiz' = quiz
    /\ userAnswers' = NoAnswers(quiz)
    /\ quizSubmitted' = FALSE
    /\ lastToggle' = <<>>

\* toggleAnswer(qIdx, oIdx) of either player: if (quizSubmitted) return; ...
ToggleAnswer(qIdx, oIdx) ==
    /\ quizHost # "none"
    /\ qIdx \in QuestionIndexes(learnerQuiz)
    /\ oIdx \in OptionIndexes(learnerQuiz, qIdx)
    /\ userAnswers' = IF quizSubmitted THEN userAnswers
                      ELSE ToggledAnswers(userAnswers, qIdx, oIdx)
    /\ lastToggle' = <<qIdx, oIdx>>
    /\ UNCHANGED <<quizHost, learnerQuiz, quizSubmitted>>

\* 'Finish Assessment' / 'Submit Assessment': setQuizSubmitted(true), setShowResults(true)
SubmitQuiz ==
    /\ quizHost # "none"
    /\ ~quizSubmitted
    /\ quizSubmitted' = TRUE
    /\ lastToggle' = <<>>
    /\ UNCHANGED <<quizHost, learnerQuiz, userAnswers>>

\* LMSPlayer 'Try Again': setShowResults(false); setUserAnswers({})
TryAgain ==
    /\ quizHost = "lms"
    /\ quizSubmitted
    /\ quizSubmitted' = FALSE
    /\ userAnswers' = NoAnswers(learnerQuiz)
    /\ lastToggle' = <<>>
    /\ UNCHANGED <<quizHost, learnerQuiz>>

QuizInit ==
    /\ quizHost = "none"
    /\ learnerQuiz = <<>>
    /\ userAnswers = <<>>
    /\ quizSubmitted = FALSE
    /\ lastToggle = <<>>

\* --------------------------------------- authoring edits (CourseBuilder)
\* The handlers of lines 191-304 and the inline title handlers, as functions
\* from the course of the render and their arguments to the tree given to
\* setCourse, and as actions that call them with arguments of every kind.
VARIABLES
    edits,      \* number of authoring calls made so far
    lastEdit    \* history: [op, outcome] of the call the last step was

authoringVars == <<edits, lastEdit>>

\* A course as the author finds it once the bodies are generated.
AuthoringCourse ==
    [id |-> "c1", title |-> "Course",
     modules |-> <<
        [id |-> "m1", title |-> "M1",
         lessons |-> << [LessonStub("l1", "T1", "text") EXCEPT !.content = "<p>a</p>"],
                        LessonStub("l2", "T2", "video") >>],
        [id |-> "m2", title |-> "M2",
         lessons |-> << [LessonStub("l3", "T3", "quiz") EXCEPT !.quiz = SampleQuiz] >>] >>]

\* Arguments the handlers are called with: ids in and out of the tree,
\* 0-based indexes in and out of range, one text.
ModuleIdArgs == ModuleIds \cup {"mX"}
LessonIdArgs == LessonIds \cup {"lX"}
IndexArgs == 0..2
TypedTexts == {"typed"}

\* const newQuestion (lines 227-231)
NewQuestion ==
    [question |-> "New Question", options |-> <<"Option 1", "Option 2">>,
     correctAnswers |-> <<0>>]

\* (mutant) a filter that drops the last element when idx is out of range
RemoveAtClamped(seq, idx) ==
    [k \in 1..(Len(seq) - (IF Len(seq) > 0 THEN 1 ELSE 0)) |->
        IF k < idx + 1 THEN seq[k] ELSE seq[k + 1]]

\* array.filter((_, i) => i !== idx), idx 0-based
RemoveAt(seq, idx) ==
    [k \in 1..(Len(seq) - (IF idx + 1 \in 1..Len(seq) THEN 1 ELSE 0)) |->
        IF k < idx + 1 THEN seq[k] ELSE seq[k + 1]]

\* (mutant) a toggle that never takes an index out again
ToggleCorrectAddOnly(currentAnswers, oIdx) ==
    IF oIdx \in Range(currentAnswers) THEN currentAnswers ELSE Append(currentAnswers, oIdx)

\* lines 210-212: includes(oIdx) ? filter(idx => idx !== oIdx) : [...currentAnswers, oIdx]
ToggleCorrect(currentAnswers, oIdx) ==
    IF oIdx \in Range(currentAnswers)
    THEN FilterOut(currentAnswers, oIdx)
    ELSE Append(currentAnswers, oIdx)

\* toggleQuizAnswer raises a TypeError: the lesson is found, l.quiz is truthy and
\* updatedQuiz[qIdx] is undefined, so q.correctAnswers (line 209) cannot be read.
ToggleQuizAnswerThrows(c, moduleId, lessonId, qIdx) ==
    LET found == FindLesson(c, moduleId, lessonId)
    IN  /\ found # <<>>
        /\ found[1].quiz.def
        /\ qIdx + 1 \notin 1..Len(found[1].quiz.qs)

\* toggleQuizAnswer (lines 202-223) where it does not raise
ToggleQuizAnswerTree(c, moduleId, lessonId, qIdx, oIdx) ==
    LET found == FindLesson(c, moduleId, lessonId)
    IN  IF found = <<>> \/ ~found[1].quiz.def THEN c
        ELSE LET qs == found[1].quiz.qs
                 q  == qs[qIdx + 1]
             IN  SetLessonField(c, moduleId, lessonId, "quiz",
                    QuizOf([qs EXCEPT ![qIdx + 1] =
                              [q EXCEPT !.correctAnswers = ToggleCorrect(q.correctAnswers, oIdx)]]))

\* addQuizQuestion (lines 225-242): quiz: [...(l.quiz || []), newQuestion]
AddQuizQuestionTree(c, moduleId, lessonId) ==
    LET found == FindLesson(c, moduleId, lessonId)
    IN  IF found = <<>> THEN c
        ELSE SetLessonField(c, moduleId, lessonId, "quiz",
                            QuizOf(Append(found[1].quiz.qs, NewQuestion)))

\* deleteQuizQuestion (lines 244-256): quiz: l.quiz?.filter((_, i) => i !== qIdx)
DeleteQuizQuestionTree(c, moduleId, lessonId, qIdx) ==
    LET found == FindLesson(c, moduleId, lessonId)
    IN  IF found = <<>> \/ ~found[1].quiz.def THEN c
        ELSE SetLessonField(c, moduleId, lessonId, "quiz",
                            QuizOf(RemoveAt(found[1].quiz.qs, qIdx)))

\* updateQuizQuestionText (lines 258-270)
UpdateQuizQuestionTextTree(c, moduleId, lessonId, qIdx, text) ==
    LET found == FindLesson(c, moduleId, lessonId)
    IN  IF found = <<>> \/ ~found[1].quiz.def THEN c
        ELSE LET qs == found[1].quiz.qs
             IN  SetLessonField(c, moduleId, lessonId, "quiz",
                    QuizOf([i \in 1..Len(qs) |->
                              IF i = qIdx + 1 THEN [qs[i] EXCEPT !.question = text] ELSE qs[i]]))

\* updateOptionText (lines 272-287)
UpdateOptionTextTree(c, moduleId, lessonId, qIdx, oIdx, text) ==
    LET found == FindLesson(c, moduleId, lessonId)
    IN  IF found = <<>> \/ ~found[1].quiz.def THEN c
        ELSE LET qs == found[1].quiz.qs
             IN  SetLessonField(c, moduleId, lessonId, "quiz",
                    QuizOf([i \in 1..Len(qs) |->
                              IF i = qIdx + 1
                              THEN [qs[i] EXCEPT !.options =
                                      [oi \in 1..Len(qs[i].options) |->
                                          IF oi = oIdx + 1 THEN text ELSE qs[i].options[oi]]]
                              ELSE qs[i]]))

\* addOption (lines 289-304)
AddOptionTree(c, moduleId, lessonId, qIdx) ==
    LET found == FindLesson(c, moduleId, lessonId)
    IN  IF found = <<>> \/ ~found[1].quiz.def THEN c
        ELSE LET qs == found[1].quiz.qs
             IN  SetLessonField(c, moduleId, lessonId, "quiz",
                    QuizOf([i \in 1..Len(qs) |->
                              IF i = qIdx + 1
                              THEN [qs[i] EXCEPT !.options = Append(qs[i].options, "New Option")]
                              ELSE qs[i]]))

\* course title onChange (line 369): setCourse({...course, title})
SetCourseTitleTree(c, title) == [c EXCEPT !.title = title]

\* (mutant) a module title edit that retitles every module
SetModuleTitleTreeEverywhere(c, moduleId, title) ==
    [c EXCEPT !.modules =
        [i \in 1..Len(c.modules) |-> [c.modules[i] EXCEPT !.title = title]]]

\* module title onChange (lines 402-407)
SetModuleTitleTree(c, moduleId, title) ==
    [c EXCEPT !.modules =
        [i \in 1..Len(c.modules) |->
            IF c.modules[i].id = moduleId
            THEN [c.modules[i] EXCEPT !.title = title]
            ELSE c.modules[i]]]

\* lesson title onChange (lines 483-492)
SetLessonTitleTree(c, moduleId, lessonId, title) ==
    SetLessonField(c, moduleId, lessonId, "title", title)

EditOutcome(op, outcome) == [op |-> op, outcome |-> outcome]

\* One handler call: the tree it computes from the course of the render is
\* given to setCourse; a handler that raises leaves the state as it was.
Edit(op, throws, tree) ==
    /\ edits < MaxEdits
    /\ edits' = edits + 1
    /\ course' = IF throws THEN course ELSE tree
    /\ lastEdit' = EditOutcome(op, IF throws THEN "raised"
                                   ELSE IF tree = course THEN "unchanged" ELSE "changed")
    /\ UNCHANGED <<selectedLesson, loadingStatus, generatingLessonIds, lessonRequests,
                   delivered, lastEvent>>

CallUpdateLessonContent(moduleId, lessonId, content) ==
    Edit("updateLessonContent", FALSE,
         UpdateLessonContentTree(course, moduleId, lessonId, content))

ToggleQuizAnswer(moduleId, lessonId, qIdx, oIdx) ==
    Edit("toggleQuizAnswer", ToggleQuizAnswerThrows(course, moduleId, lessonId, qIdx),
         ToggleQuizAnswerTree(course, moduleId, lessonId, qIdx, oIdx))

AddQuizQuestion(moduleId, lessonId) ==
    Edit("addQuizQuestion", FALSE, AddQuizQuestionTree(course, moduleId, lessonId))

DeleteQuizQuestion(moduleId, lessonId, qIdx) ==
    Edit("deleteQuizQuestion", FALSE, DeleteQuizQuestionTree(course, moduleId, lessonId, qIdx))

UpdateQuizQuestionText(moduleId, lessonId, qIdx, text) ==
    Edit("updateQuizQuestionText", FALSE,
         UpdateQuizQuestionTextTree(course, moduleId, lessonId, qIdx, text))

UpdateOptionText(moduleId, lessonId, qIdx, oIdx, text) ==
    Edit("updateOptionText", FALSE,
         UpdateOptionTextTree(course, moduleId, lessonId, qIdx, oIdx, text))

AddOption(moduleId, lessonId, qIdx) ==
    Edit("addOption", FALSE, AddOptionTree(course, moduleId, lessonId, qIdx))

SetCourseTitle(title) ==
    Edit("courseTitle", FALSE, SetCourseTitleTree(course, title))

\* rendered once per module of the course
SetModuleTitle(moduleId, title) ==
    /\ \E i \in 1..Len(course.modules) : course.modules[i].id = moduleId
    /\ Edit("moduleTitle", FALSE, SetModuleTitleTree(course, moduleId, title))

\* rendered for the lesson open in the editor
SetLessonTitle(moduleId, lessonId, title) ==
    /\ FindLesson(course, moduleId, lessonId) # <<>>
    /\ Edit("lessonTitle", FALSE, SetLessonTitleTree(course, moduleId, lessonId, title))

AuthoringInit ==
    /\ edits = 0
    /\ lastEdit = EditOutcome("none", "unchanged")

\* ---------------------------------------------- audio decoding (main.tsx)
VARIABLES
    audioBytes,    \* data: Uint8Array, as a sequence of bytes
    numChannels,   \* numChannels argument
    decoded        \* what decodeAudioData gave for them: an AudioBuffer or an error

decodeVars == <<audioBytes, numChannels, decoded>>

\* Byte values that build the extreme and the middle 16-bit samples.
SampleBytes == {0, 1, 127, 128, 255}

NotDecoded == [error |-> "pending", frames |-> 0, channelData |-> <<>>]

\* (mutant) a 16-bit read that ignores the sign bit
ToUint16(lo, hi) == lo + 256 * hi

\* Int16Array element: the two bytes, low byte first, as a two's complement number
ToInt16(lo, hi) ==
    IF lo + 256 * hi >= 32768 THEN lo + 256 * hi - 65536 ELSE lo + 256 * hi

\* dataInt16[k], k 0-based
Int16At(data, k) == ToInt16(data[2 * k + 1], data[2 * k + 2])

\* dataInt16[...] / 32768.0: a dyadic fraction, exact in a Float32Array
Sample(num) == [num |-> num, den |-> 32768]

\* decodeAudioData(data, ctx, sampleRate, numChannels), lines 75-92.
\*  new Int16Array(data.buffer) raises a RangeError when the byte length is odd;
\*  ctx.createBuffer(numChannels, frameCount, sampleRate) converts frameCount to
\*  an unsigned long (truncation) and raises NotSupportedError for a length of 0;
\*  a write to channelData at an index beyond its length is ignored.
DecodeAudioData(data, channels) ==
    IF Len(data) % 2 # 0
    THEN [error |-> "RangeError", frames |-> 0, channelData |-> <<>>]
    ELSE LET length == (Len(data) \div 2) \div channels
         IN  IF length = 0
             THEN [error |-> "NotSupportedError", frames |-> 0, channelData |-> <<>>]
             ELSE [error |-> "", frames |-> length,
                   channelData |->
                      [c \in 0..(channels - 1) |->
                          [i \in 0..(length - 1) |-> Sample(Int16At(data, i * channels + c))]]]

\* A clip arrives (generateNarration's data after decodeBase64).
ReceiveAudio(data, channels) ==
    /\ decoded = NotDecoded
    /\ audioBytes = <<>>
    /\ data # <<>>
    /\ audioBytes' = data
    /\ numChannels' = channels
    /\ UNCHANGED decoded

\* await decodeAudioData(bytes, ctx, 24000, numChannels)
DecodeAudio ==
    /\ decoded = NotDecoded
    /\ audioBytes # <<>>
    /\ decoded' = DecodeAudioData(audioBytes, numChannels)
    /\ UNCHANGED <<audioBytes, numChannels>>

DecodeInit ==
    /\ audioBytes = <<>>
    /\ numChannels = 1
    /\ decoded = NotDecoded

\* --------------------------------- course library (CourseBuilder, App, storage)
VARIABLES
    topic,         \* CourseBuilder useState(''): the topic field
    topicDraft,    \* localStorage 'edugenius_topic_draft' ("" when absent)
    isGenerating,  \* CourseBuilder useState(false)
    creations,     \* bag of running handleInitialGeneration calls (their frames)
    stored,        \* localStorage 'edugenius_courses': the persisted collection
    courses,       \* App useState<Course[]>([])
    activeCourse,  \* App useState<Course|null>(null)
    lastLibrary    \* history: what the last step was and the course id it acted on

libraryVars == <<topic, topicDraft, isGenerating, creations, stored, courses,
                 activeCourse, lastLibrary>>

\* null, for course and activeCourse
NoCourse == [id |-> "", title |-> "", description |-> "", thumbnail |-> "", modules |-> <<>>]

NoStructure == [title |-> "", description |-> "", modules |-> <<>>]

\* Ids Math.random().toString(36).substr(2, 9) may give.
CourseIds == {"c1", "c2"}

\* What generateCourseStructure may answer: title, description, modules of lesson stubs.
StructureResults ==
    {[title |-> "Course", description |-> "D",
      modules |-> <<
         [id |-> "m1", title |-> "M1",
          lessons |-> << [id |-> "l1", title |-> "T1", type |-> "text"],
                         [id |-> "l2", title |-> "T2", type |-> "video"] >>],
         [id |-> "m2", title |-> "M2",
          lessons |-> << [id |-> "l3", title |-> "T3", type |-> "quiz"] >>] >>]}

ThumbnailResults == {"data:image/png;base64,t"}

\* What the author may type into the topic field and the course title field.
TypedTopics == {"", "T"}
CourseTitles == {"A"}

\* The object handleInitialGeneration passes to setCourse.
CourseFromStructure(id, structure, thumbnail) ==
    [id |-> id, title |-> structure.title, description |-> structure.description,
     thumbnail |-> thumbnail,
     modules |->
        [m \in 1..Len(structure.modules) |->
            [id |-> structure.modules[m].id,
             title |-> structure.modules[m].title,
             lessons |->
                [k \in 1..Len(structure.modules[m].lessons) |->
                    LessonStub(structure.modules[m].lessons[k].id,
                               structure.modules[m].lessons[k].title,
                               structure.modules[m].lessons[k].type)]]]]

IdsOf(list) == {list[i].id : i \in 1..Len(list)}

\* The entries of a collection that carry one id.
EntriesOf(list, id) == SelectSeq(list, LAMBDA c : c.id = id)

\* The entries of a collection that carry any other id, in order.
OthersOf(list, id) == SelectSeq(list, LAMBDA c : c.id # id)

\* (mutant) an auto-save that always adds the course as a new draft
AutoSavePushes(list, c) == Append(list, c)

\* The auto-save effect on the parsed collection: findIndex by id, replace or push.
AutoSave(list, c) ==
    IF \E i \in 1..Len(list) : list[i].id = c.id
    THEN LET existingIndex == CHOOSE i \in 1..Len(list) :
                 /\ list[i].id = c.id
                 /\ \A j \in 1..(i - 1) : list[j].id # c.id
         IN  [list EXCEPT ![existingIndex] = c]
    ELSE Append(list, c)

\* saveCourse's updater: prev.find, then prev.map or [...prev, course].
SaveCourseList(prev, c) ==
    IF \E i \in 1..Len(prev) : prev[i].id = c.id
    THEN [i \in 1..Len(prev) |-> IF prev[i].id = c.id THEN c ELSE prev[i]]
    ELSE Append(prev, c)

LibraryEvent(kind, id) == [kind |-> kind, id |-> id]

\* App renders the CourseBuilder in the views 'create' and 'edit'.
BuilderMounted == currentView \in {"create", "edit"}

\* Ids no course of this session carries yet.
FreshIds ==
    CourseIds \ (IdsOf(stored) \cup IdsOf(courses) \cup {course.id, activeCourse.id})

\* The CourseBuilder leaves the page: its state and the results of its running
\* calls go with it.
BuilderUnmounts ==
    /\ course' = NoCourse
    /\ loadingStatus' = ""
    /\ topic' = ""
    /\ isGenerating' = FALSE
    /\ creations' = EmptyBag

\* onChange of the topic input, and the topic auto-save effect.
SetTopic(t) ==
    /\ BuilderMounted
    /\ course = NoCourse
    /\ topic' = t
    /\ topicDraft' = IF t # "" THEN t ELSE topicDraft
    /\ lastLibrary' = LibraryEvent("topic", "")
    /\ UNCHANGED <<course, loadingStatus, currentView, isGenerating, creations, stored,
                   courses, activeCourse>>

\* handleInitialGeneration up to its first await.
HandleInitialGeneration ==
    /\ BagCardinality(creations) < MaxCreations
    /\ IF topic = ""
       THEN UNCHANGED <<loadingStatus, isGenerating, creations>>
       ELSE /\ isGenerating' = TRUE
            /\ loadingStatus' = "Architecting course structure..."
            /\ creations' = creations (+)
                   SetToBag({[pc |-> "structure", topic |-> topic, structure |-> NoStructure]})
    /\ lastLibrary' = LibraryEvent("requested", "")
    /\ UNCHANGED <<course, currentView, topic, topicDraft, stored, courses, activeCourse>>

\* The Build Course button: disabled={isGenerating || !topic}.
ClickBuildCourse ==
    /\ BuilderMounted
    /\ course = NoCourse
    /\ ~isGenerating
    /\ topic # ""
    /\ HandleInitialGeneration

\* Enter in the topic input: onKeyPress calls the handler whatever the button shows.
PressEnterInCourseTopic ==
    /\ BuilderMounted
    /\ course = NoCourse
    /\ HandleInitialGeneration

\* generateCourseStructure resolves; generateThumbnail is called.
StructureArrives(frame, structure) ==
    /\ frame \in BagToSet(creations)
    /\ frame.pc = "structure"
    /\ creations' = (creations (-) SetToBag({frame})) (+)
           SetToBag({[frame EXCEPT !.pc = "thumbnail", !.structure = structure]})
    /\ lastLibrary' = LibraryEvent("structure", "")
    /\ UNCHANGED <<course, loadingStatus, currentView, topic, topicDraft, isGenerating,
                   stored, courses, activeCourse>>

\* catch and finally of handleInitialGeneration: alert, setIsGenerating(false).
CreationFails(frame) ==
    /\ frame \in BagToSet(creations)
    /\ creations' = creations (-) SetToBag({frame})
    /\ isGenerating' = FALSE
    /\ lastLibrary' = LibraryEvent("create-failed", "")
    /\ UNCHANGED <<course, loadingStatus, currentView, topic, topicDraft, stored, courses,
                   activeCourse>>

\* generateCourseStructure rejects.
StructureFails(frame) ==
    /\ frame.pc = "structure"
    /\ CreationFails(frame)

\* generateThumbnail rejects ("No image generated", a failed request).
ThumbnailFails(frame) ==
    /\ frame.pc = "thumbnail"
    /\ CreationFails(frame)

\* generateThumbnail resolves: setCourse, setLoadingStatus(''), setIsGenerating(false),
\* then the auto-save effect of the new course.
ThumbnailArrives(frame, id, thumbnail) ==
    /\ frame \in BagToSet(creations)
    /\ frame.pc = "thumbnail"
    /\ id \in FreshIds
    /\ creations' = creations (-) SetToBag({frame})
    /\ course' = CourseFromStructure(id, frame.structure, thumbnail)
    /\ loadingStatus' = ""
    /\ isGenerating' = FALSE
    /\ stored' = AutoSave(stored, course')
    /\ topicDraft' = ""
    /\ lastLibrary' = LibraryEvent("created", id)
    /\ UNCHANGED <<currentView, topic, courses, activeCourse>>

\* onChange of the course title input, then the auto-save effect.
TypeCourseTitle(title) ==
    /\ BuilderMounted
    /\ course # NoCourse
    /\ course' = SetCourseTitleTree(course, title)
    /\ stored' = AutoSave(stored, course')
    /\ topicDraft' = ""
    /\ lastLibrary' = LibraryEvent("edit", course.id)
    /\ UNCHANGED <<loadingStatus, currentView, topic, isGenerating, creations, courses,
                   activeCourse>>

\* Publish & Exit: onSave(course), that is saveCourse.
PublishAndExit ==
    /\ BuilderMounted
    /\ course # NoCourse
    /\ courses' = SaveCourseList(courses, course)
    /\ stored' = courses'
    /\ currentView' = "dashboard"
    /\ BuilderUnmounts
    /\ lastLibrary' = LibraryEvent("published", course.id)
    /\ UNCHANGED <<topicDraft, activeCourse>>

\* The builder's close button (onCancel), My Library and the logo.
GoToLibrary ==
    /\ BuilderMounted
    /\ currentView' = "dashboard"
    /\ BuilderUnmounts
    /\ lastLibrary' = LibraryEvent("cancelled", course.id)
    /\ UNCHANGED <<topicDraft, stored, courses, activeCourse>>

\* New Course: from the dashboard a builder mounts without a course and loads
\* the topic draft; a builder already on the page stays as it is.
OpenCreate ==
    /\ activeCourse' = NoCourse
    /\ currentView' = "create"
    /\ IF BuilderMounted
       THEN UNCHANGED <<course, topic>>
       ELSE course' = NoCourse /\ topic' = topicDraft
    /\ lastLibrary' = LibraryEvent("new", "")
    /\ UNCHANGED <<loadingStatus, topicDraft, isGenerating, creations, stored, courses>>

\* startEditing: the builder mounts with App's copy; its auto-save effect runs.
StartEditing(c) ==
    /\ currentView = "dashboard"
    /\ c \in Range(courses)
    /\ activeCourse' = c
    /\ currentView' = "edit"
    /\ course' = c
    /\ stored' = AutoSave(stored, c)
    /\ topicDraft' = ""
    /\ lastLibrary' = LibraryEvent("opened", c.id)
    /\ UNCHANGED <<loadingStatus, topic, isGenerating, creations, courses>>

\* deleteCourse(id), confirmed.
DeleteCourse(id) ==
    /\ currentView = "dashboard"
    /\ id \in IdsOf(courses)
    /\ courses' = OthersOf(courses, id)
    /\ stored' = courses'
    /\ lastLibrary' = LibraryEvent("deleted", id)
    /\ UNCHANGED <<course, loadingStatus, currentView, topic, topicDraft, isGenerating,
                   creations, activeCourse>>

\* The page is loaded again: App mounts and reads the persisted collection.
ReloadApp ==
    /\ courses' = stored
    /\ activeCourse' = NoCourse
    /\ currentView' = "dashboard"
    /\ BuilderUnmounts
    /\ lastLibrary' = LibraryEvent("reloaded", "")
    /\ UNCHANGED <<topicDraft, stored>>

\* A builder with a course has saved it; App has not read the collection yet.
LibraryInit ==
    /\ topic = ""
    /\ topicDraft = ""
    /\ isGenerating = FALSE
    /\ creations = EmptyBag
    /\ stored = IF course = NoCourse THEN <<>> ELSE <<course>>
    /\ courses = <<>>
    /\ activeCourse = NoCourse
    /\ lastLibrary = LibraryEvent("none", "")

\* ------------------------------------------------------------- composition
\* An editing session opened on a course whose bodies exist (initialCourse).
AuthoringSessionInit ==
    /\ course = AuthoringCourse
    /\ selectedLesson = NoSelection
    /\ loadingStatus = ""
    /\ generatingLessonIds = {}
    /\ lessonRequests = EmptyBag
    /\ delivered = [l \in LessonIds |-> <<>>]
    /\ lastEvent = Event("none", "")
    /\ InteractiveInit /\ PlayerInit /\ QuizInit /\ AuthoringInit /\ DecodeInit /\ LibraryInit

vars == <<courseVars, interactiveVars, playerVars, quizVars, authoringVars, decodeVars, libraryVars>>

Init == CourseInit /\ InteractiveInit /\ PlayerInit /\ QuizInit /\ AuthoringInit /\ DecodeInit /\ LibraryInit

\* The course builder on its own (the rest of the application idle).
CourseNext ==
    \/ (\E m \in ModuleIds, l \in LessonIds : SelectLesson(m, l))
          /\ UNCHANGED <<interactiveVars, playerVars, quizVars, authoringVars, decodeVars, libraryVars>>
    \/ (\E m \in ModuleIds, l \in LessonIds : SidebarGenerate(m, l))
          /\ UNCHANGED <<interactiveVars, playerVars, quizVars, authoringVars, decodeVars, libraryVars>>
    \/ RegenerateClip /\ UNCHANGED <<interactiveVars, playerVars, quizVars, authoringVars, decodeVars, libraryVars>>
    \/ (\E req \in BagToSet(lessonRequests) :
          \E result \in ServiceResults(req.type) : GenerateSucceed(req, result))
          /\ UNCHANGED <<interactiveVars, playerVars, quizVars, authoringVars, decodeVars, libraryVars>>
    \/ (\E req \in BagToSet(lessonRequests) : GenerateFail(req))
          /\ UNCHANGED <<interactiveVars, playerVars, quizVars, authoringVars, decodeVars, libraryVars>>
    \/ (\E content \in TypedContents : UpdateLessonContent(content))
          /\ UNCHANGED <<interactiveVars, playerVars, quizVars, authoringVars, decodeVars, libraryVars>>

SpecCourse == Init /\ [][CourseNext]_vars

\* The service answers every lesson-body request eventually.
FairSpecCourse ==
    SpecCourse /\ \A l \in LessonIds : WF_vars(CompleteFor(l) /\ UNCHANGED <<interactiveVars, playerVars, quizVars, authoringVars, decodeVars, libraryVars>>)

\* The dashboard's interactive generation on its own.
InteractiveNext ==
    \/ ClickGenerateLesson /\ UNCHANGED <<courseVars, playerVars, quizVars, authoringVars, decodeVars, libraryVars>>
    \/ PressEnterInTopic /\ UNCHANGED <<courseVars, playerVars, quizVars, authoringVars, decodeVars, libraryVars>>
    \/ (\E typed \in {"", "triangles"} : SetInteractiveTopic(typed))
          /\ UNCHANGED <<courseVars, playerVars, quizVars, authoringVars, decodeVars, libraryVars>>
    \/ ExitInteractivePlayer /\ UNCHANGED <<courseVars, playerVars, quizVars, authoringVars, decodeVars, libraryVars>>
    \/ (\E a \in BagToSet(attempts) :
          \E lesson \in StructureResponses : StructureReturns(a, lesson))
          /\ UNCHANGED <<courseVars, playerVars, quizVars, authoringVars, decodeVars, libraryVars>>
    \/ (\E a \in BagToSet(attempts) : IllustrationReturns(a)) /\ UNCHANGED <<courseVars, playerVars, quizVars, authoringVars, decodeVars, libraryVars>>
    \/ (\E a \in BagToSet(attempts) : NarrationReturns(a)) /\ UNCHANGED <<courseVars, playerVars, quizVars, authoringVars, decodeVars, libraryVars>>
    \/ (\E a \in BagToSet(attempts) : SurfaceLesson(a)) /\ UNCHANGED <<courseVars, playerVars, quizVars, authoringVars, decodeVars, libraryVars>>
    \/ (\E a \in BagToSet(attempts) : InteractiveRequestFails(a)) /\ UNCHANGED <<courseVars, playerVars, quizVars, authoringVars, decodeVars, libraryVars>>

SpecInteractive == Init /\ [][InteractiveNext]_vars

\* A player on its own.
PlayerNext ==
    \/ LaunchCourse /\ UNCHANGED <<courseVars, interactiveVars, quizVars, authoringVars, decodeVars, libraryVars>>
    \/ ShowInteractivePlayer /\ UNCHANGED <<courseVars, interactiveVars, quizVars, authoringVars, decodeVars, libraryVars>>
    \/ PlayNarration /\ UNCHANGED <<courseVars, interactiveVars, quizVars, authoringVars, decodeVars, libraryVars>>
    \/ (\E lesson \in BagToSet(narrationRequests) : NarrationArrives(lesson))
          /\ UNCHANGED <<courseVars, interactiveVars, quizVars, authoringVars, decodeVars, libraryVars>>
    \/ (\E lesson \in BagToSet(narrationRequests) : NarrationFails(lesson))
          /\ UNCHANGED <<courseVars, interactiveVars, quizVars, authoringVars, decodeVars, libraryVars>>
    \/ (\E lesson \in 1..PlayerItems : ShowLesson(lesson))
          /\ UNCHANGED <<courseVars, interactiveVars, quizVars, authoringVars, decodeVars, libraryVars>>
    \/ ToggleAudioStop /\ UNCHANGED <<courseVars, interactiveVars, quizVars, authoringVars, decodeVars, libraryVars>>
    \/ ToggleAudioPlay /\ UNCHANGED <<courseVars, interactiveVars, quizVars, authoringVars, decodeVars, libraryVars>>
    \/ HandleNext /\ UNCHANGED <<courseVars, interactiveVars, quizVars, authoringVars, decodeVars, libraryVars>>
    \/ HandlePrev /\ UNCHANGED <<courseVars, interactiveVars, quizVars, authoringVars, decodeVars, libraryVars>>
    \/ ExitPlayer /\ UNCHANGED <<courseVars, interactiveVars, quizVars, authoringVars, decodeVars, libraryVars>>
    \/ (\E s \in SourceIds : ClipEnds(s)) /\ UNCHANGED <<courseVars, interactiveVars, quizVars, authoringVars, decodeVars, libraryVars>>
    \/ (\E s \in SourceIds : EndedEvent(s)) /\ UNCHANGED <<courseVars, interactiveVars, quizVars, authoringVars, decodeVars, libraryVars>>

SpecPlayer == Init /\ [][PlayerNext]_vars

\* The course builder on a structure in which the service typed a lesson
\* 'interactive' (generateCourseStructure's schema: enum text, video, quiz, interactive).
CourseWithInteractive ==
    [InitialCourse EXCEPT !.modules[1].lessons[1] = LessonStub("l1", "T1", "interactive")]

InitWithInteractive ==
    /\ course = CourseWithInteractive
    /\ selectedLesson = NoSelection
    /\ loadingStatus = ""
    /\ generatingLessonIds = {}
    /\ lessonRequests = EmptyBag
    /\ delivered = [l \in LessonIds |-> <<>>]
    /\ lastEvent = Event("none", "")
    /\ InteractiveInit /\ PlayerInit /\ QuizInit /\ AuthoringInit /\ DecodeInit /\ LibraryInit

SpecCourseInteractive == InitWithInteractive /\ [][CourseNext]_vars

\* Both generation pipelines. The App renders the CourseBuilder in its 'create'
\* and 'edit' views and the interactive generator in its dashboard, one at a
\* time: a session uses the one or the other.
GenerationNext ==
    \/ InteractiveInit /\ CourseNext
    \/ CourseInit /\ InteractiveNext

SpecGeneration == Init /\ [][GenerationNext]_vars

\* The course builder with a service that may also answer out of shape.
CourseMalformedNext ==
    \/ CourseNext
    \/ (\E req \in BagToSet(lessonRequests) :
          \E response \in MalformedResponses(req.type) : ReceiveMalformed(req, response))
          /\ UNCHANGED <<interactiveVars, playerVars, quizVars, authoringVars, decodeVars, libraryVars>>

SpecCourseMalformed == Init /\ [][CourseMalformedNext]_vars

\* The state of the builder and of App the library steps leave alone.
libraryRest == <<selectedLesson, generatingLessonIds, lessonRequests, delivered, lastEvent,
                 interactiveTopic, isGeneratingInteractive, genProgress, genStatus,
                 interactiveLesson, attempts, lastGen,
                 playerVars, quizVars, authoringVars, decodeVars>>

\* The application freshly loaded in a browser without saved courses.
LibrarySessionInit ==
    /\ course = NoCourse
    /\ selectedLesson = NoSelection
    /\ loadingStatus = ""
    /\ generatingLessonIds = {}
    /\ lessonRequests = EmptyBag
    /\ delivered = [l \in LessonIds |-> <<>>]
    /\ lastEvent = Event("none", "")
    /\ InteractiveInit /\ PlayerInit /\ QuizInit /\ AuthoringInit /\ DecodeInit
    /\ LibraryInit

\* The library: creating, editing, publishing and deleting courses.
LibraryNext ==
    \/ (\E t \in TypedTopics : SetTopic(t)) /\ UNCHANGED libraryRest
    \/ ClickBuildCourse /\ UNCHANGED libraryRest
    \/ PressEnterInCourseTopic /\ UNCHANGED libraryRest
    \/ (\E frame \in BagToSet(creations), structure \in StructureResults :
          StructureArrives(frame, structure)) /\ UNCHANGED libraryRest
    \/ (\E frame \in BagToSet(creations) : StructureFails(frame)) /\ UNCHANGED libraryRest
    \/ (\E frame \in BagToSet(creations) : ThumbnailFails(frame)) /\ UNCHANGED libraryRest
    \/ (\E frame \in BagToSet(creations), id \in CourseIds, thumbnail \in ThumbnailResults :
          ThumbnailArrives(frame, id, thumbnail)) /\ UNCHANGED libraryRest
    \/ (\E title \in CourseTitles : TypeCourseTitle(title)) /\ UNCHANGED libraryRest
    \/ PublishAndExit /\ UNCHANGED libraryRest
    \/ GoToLibrary /\ UNCHANGED libraryRest
    \/ OpenCreate /\ UNCHANGED libraryRest
    \/ (\E c \in Range(courses) : StartEditing(c)) /\ UNCHANGED libraryRest
    \/ (\E id \in CourseIds : DeleteCourse(id)) /\ UNCHANGED libraryRest
    \/ ReloadApp /\ UNCHANGED libraryRest

SpecLibrary == LibrarySessionInit /\ [][LibraryNext]_vars

\* The decoder on its own.
ByteSeqs == UNION {[1..n -> SampleBytes] : n \in 1..MaxBytes}

DecodeNext ==
    \/ (\E data \in ByteSeqs, channels \in {1, 2} : ReceiveAudio(data, channels))
          /\ UNCHANGED <<courseVars, interactiveVars, playerVars, quizVars, authoringVars, libraryVars>>
    \/ DecodeAudio
          /\ UNCHANGED <<courseVars, interactiveVars, playerVars, quizVars, authoringVars, libraryVars>>

SpecDecode == Init /\ [][DecodeNext]_vars

\* A learner's quiz on its own.
QuizNext ==
    \/ (\E host \in {"lms", "interactive"}, quiz \in QuizSamples : OpenQuiz(host, quiz))
          /\ UNCHANGED <<courseVars, interactiveVars, playerVars, authoringVars, decodeVars, libraryVars>>
    \/ (\E qIdx \in 0..1, oIdx \in 0..2 : ToggleAnswer(qIdx, oIdx))
          /\ UNCHANGED <<courseVars, interactiveVars, playerVars, authoringVars, decodeVars, libraryVars>>
    \/ SubmitQuiz /\ UNCHANGED <<courseVars, interactiveVars, playerVars, authoringVars, decodeVars, libraryVars>>
    \/ TryAgain /\ UNCHANGED <<courseVars, interactiveVars, playerVars, authoringVars, decodeVars, libraryVars>>

SpecQuiz == Init /\ [][QuizNext]_vars

\* An editing session on its own.
AuthoringNext ==
    \/ (\E m \in ModuleIdArgs, l \in LessonIdArgs, text \in TypedTexts :
            CallUpdateLessonContent(m, l, text))
          /\ UNCHANGED <<interactiveVars, playerVars, quizVars, decodeVars, libraryVars>>
    \/ (\E m \in ModuleIdArgs, l \in LessonIdArgs, qIdx \in IndexArgs, oIdx \in IndexArgs :
            ToggleQuizAnswer(m, l, qIdx, oIdx))
          /\ UNCHANGED <<interactiveVars, playerVars, quizVars, decodeVars, libraryVars>>
    \/ (\E m \in ModuleIdArgs, l \in LessonIdArgs : AddQuizQuestion(m, l))
          /\ UNCHANGED <<interactiveVars, playerVars, quizVars, decodeVars, libraryVars>>
    \/ (\E m \in ModuleIdArgs, l \in LessonIdArgs, qIdx \in IndexArgs :
            DeleteQuizQuestion(m, l, qIdx))
          /\ UNCHANGED <<interactiveVars, playerVars, quizVars, decodeVars, libraryVars>>
    \/ (\E m \in ModuleIdArgs, l \in LessonIdArgs, qIdx \in IndexArgs, text \in TypedTexts :
            UpdateQuizQuestionText(m, l, qIdx, text))
          /\ UNCHANGED <<interactiveVars, playerVars, quizVars, decodeVars, libraryVars>>
    \/ (\E m \in ModuleIdArgs, l \in LessonIdArgs, qIdx \in IndexArgs, oIdx \in IndexArgs,
           text \in TypedTexts : UpdateOptionText(m, l, qIdx, oIdx, text))
          /\ UNCHANGED <<interactiveVars, playerVars, quizVars, decodeVars, libraryVars>>
    \/ (\E m \in ModuleIdArgs, l \in LessonIdArgs, qIdx \in IndexArgs : AddOption(m, l, qIdx))
          /\ UNCHANGED <<interactiveVars, playerVars, quizVars, decodeVars, libraryVars>>
    \/ (\E title \in TypedTexts : SetCourseTitle(title))
          /\ UNCHANGED <<interactiveVars, playerVars, quizVars, decodeVars, libraryVars>>
    \/ (\E m \in ModuleIdArgs, title \in TypedTexts : SetModuleTitle(m, title))
          /\ UNCHANGED <<interactiveVars, playerVars, quizVars, decodeVars, libraryVars>>
    \/ (\E m \in ModuleIdArgs, l \in LessonIdArgs, title \in TypedTexts :
            SetLessonTitle(m, l, title))
          /\ UNCHANGED <<interactiveVars, playerVars, quizVars, decodeVars, libraryVars>>

SpecAuthoring == AuthoringSessionInit /\ [][AuthoringNext]_vars

\* ------------------------------------------------------- claims: course mode

\* C1: at most one generateLessonBody request per lesson id awaits the service
\* at any time (a second request for an in-flight lesson is rejected).
C1_AtMostOneOutstanding ==
    \A l \in LessonIds : OutstandingFor(l) <= 1

\* C2: the completion (success or failure) of a generateLessonBody call for lesson L
\* removes L from generatingLessonIds and clears loadingStatus, and with a service
\* that answers, an in-flight L eventually is out of the set with its sidebar
\* generate button enabled again.
C2_InFlightReleased ==
    /\ [][\A l \in LessonIds :
            OutstandingFor(l)' < OutstandingFor(l)
                => (l \notin generatingLessonIds' /\ SidebarEnabled(l)')]_vars
    /\ \A l \in LessonIds : (l \in generatingLessonIds) ~> SidebarEnabled(l)

\* A call for the lesson has failed, the lesson is out of the in-flight set and may
\* be generated again.
C2_Witness ==
    /\ lastEvent.kind = "failure"
    /\ lastEvent.lessonId \notin generatingLessonIds
    /\ SidebarEnabled(lastEvent.lessonId)
    /\ OutstandingFor(lastEvent.lessonId) = 0

\* C3: the step in which a generateLessonBody request fails leaves the course tree
\* as it was, so a payload installed by an earlier generation stays in place.
C3_FailureKeepsTree ==
    [][(/\ lastEvent'.kind = "failure"
        /\ BagCardinality(lessonRequests)' < BagCardinality(lessonRequests))
            => course' = course]_vars

\* A regeneration of a lesson failed and the payload of its earlier successful
\* generation is still in the tree.
C3_Witness ==
    /\ lastEvent.kind = "failure"
    /\ delivered[lastEvent.lessonId] # <<>>
    /\ LessonById(course, lastEvent.lessonId) # <<>>
    /\ PayloadOf(LessonById(course, lastEvent.lessonId)[1])
          = delivered[lastEvent.lessonId][1]

\* C4: once no generation is outstanding, every lesson whose generation succeeded
\* (and was not edited since) holds the payload that generation delivered,
\* whatever other lessons were generated at the same time.
C4_BothPayloadsHeld ==
    lessonRequests = EmptyBag =>
        \A l \in LessonIds :
            delivered[l] # <<>> =>
                /\ LessonById(course, l) # <<>>
                /\ PayloadOf(LessonById(course, l)[1]) = delivered[l][1]

\* ------------------------------------------------ claims: interactive mode

C6_ProgressMonotonic ==
    [][(BagCardinality(attempts) >= 1 /\ BagCardinality(attempts)' >= 1)
          => FracLeq(genProgress, genProgress')]_vars

\* C7: an attempt has at most one request outstanding; an outstanding asset request
\* is for the step the loop is at, all earlier steps have both their assets, and a
\* narration request is outstanding only once the illustration of its step is in.
C7_SequentialRequests ==
    \A a \in BagToSet(attempts) :
        /\ Cardinality(a.pending) <= 1
        /\ \A r \in a.pending :
              r.kind # "structure" =>
                  /\ r.step = a.i
                  /\ Len(a.stepsWithAssets) = a.i
                  /\ \A j \in 1..Len(a.stepsWithAssets) :
                        /\ a.stepsWithAssets[j].imageUrl # ""
                        /\ a.stepsWithAssets[j].audioData # ""
                  /\ r.kind = "narration" =>
                        a.imageUrl = Illustration(a.lesson.steps[a.i + 1].imagePrompt)
                  /\ r.kind = "illustration" => a.imageUrl = ""

\* The narration of a second step is the one outstanding request of an attempt.
C7_Witness ==
    \E a \in BagToSet(attempts) :
        /\ a.pending = {NarrationRequest(1)}
        /\ Len(a.stepsWithAssets) = 1

\* C8: the step in which a request of an attempt fails changes neither
\* interactiveLesson nor the view: nothing of the attempt is surfaced.
C8_AllOrNothing ==
    [][lastGen'.kind = "failed"
          => (interactiveLesson' = interactiveLesson /\ currentView' = currentView)]_vars

\* An attempt failed after the assets of its first step had been generated, and
\* no lesson is shown.
C8_Witness ==
    /\ lastGen.kind = "failed"
    /\ lastGen.k >= 1
    /\ interactiveLesson = NoLesson
    /\ currentView = "dashboard"

\* C9: the lesson an attempt surfaces has the steps of its structure response, in
\* order and with their ids, each with the illustration of its own prompt and the
\* narration of its own explanation, and the response's topic and quiz.
C9_SurfacedLessonFaithful ==
    [][\A a \in BagToSet(attempts) :
          (a.pc = "surface" /\ lastGen'.kind = "surfaced") =>
              /\ currentView' = "interactive_play"
              /\ interactiveLesson'.topic = a.lesson.topic
              /\ interactiveLesson'.quiz = a.lesson.quiz
              /\ interactiveLesson'.id = a.lesson.id
              /\ Len(interactiveLesson'.steps) = Len(a.lesson.steps)
              /\ \A j \in 1..Len(a.lesson.steps) :
                    /\ interactiveLesson'.steps[j].id = a.lesson.steps[j].id
                    /\ interactiveLesson'.steps[j].explanation = a.lesson.steps[j].explanation
                    /\ interactiveLesson'.steps[j].imageUrl
                          = Illustration(a.lesson.steps[j].imagePrompt)
                    /\ interactiveLesson'.steps[j].audioData
                          = Narration(a.lesson.steps[j].explanation)]_vars

\* A lesson of three steps has been surfaced.
C9_Witness ==
    /\ lastGen = GenEvent("surfaced", 3, 3)
    /\ Len(interactiveLesson.steps) = 3
    /\ currentView = "interactive_play"

\* ------------------------------------------------------- claims: playback

\* C10: in a player, every audio source that has been started and has neither
\* been stopped nor ended is the one held in audioSourceRef: there is at most one.
C10_ExclusivePlayback ==
    /\ \A s \in SourceIds : sources[s] = "playing" => audioSourceRef = s
    /\ Cardinality(Playing(sources)) <= 1

\* A clip was started while another one was playing: the old one is stopped and
\* the new one is the only one playing.
C10_Witness ==
    /\ lastAudio = "replaced"
    /\ Playing(sources) = {audioSourceRef}
    /\ \E s \in SourceIds : sources[s] = "stopped"

\* C11: every manual stop of a playing clip (stop toggle, lesson or step
\* navigation) of a mounted player sets the 'is playing' flag to false in the
\* step of the stop itself.
C11_StopClearsFlag ==
    [][(lastAudio' = "stopped" /\ mounted') => ~PlayingFlag']_vars

\* C12: the 'ended' handler of an earlier clip never resets the 'is playing'
\* flag to false while another clip is playing.
C12_EndedNeverResetsNewClip ==
    [][(lastAudio' = "ended-event" /\ Playing(sources') # {}) => PlayingFlag' = PlayingFlag]_vars

\* ------------------------------------------------------- claims: learner quiz

\* C13: a toggleAnswer(qIdx, oIdx) call before submission flips the membership
\* of oIdx in the selection of question qIdx and leaves the selections of the
\* other questions as they were; after submission it changes nothing.
C13_ToggleFlipsOne ==
    [][lastToggle' # <<>> =>
          LET qIdx == lastToggle'[1]
              oIdx == lastToggle'[2]
          IN  IF quizSubmitted
              THEN userAnswers' = userAnswers
              ELSE /\ (oIdx \in Range(userAnswers'[qIdx])) <=> (oIdx \notin Range(userAnswers[qIdx]))
                   /\ Range(userAnswers'[qIdx]) \ {oIdx} = Range(userAnswers[qIdx]) \ {oIdx}
                   /\ \A other \in QuestionIndexes(learnerQuiz) \ {qIdx} :
                          userAnswers'[other] = userAnswers[other]]_vars

\* An option was deselected again while another question keeps its selection.
C13_Witness ==
    /\ lastToggle = <<0, 1>>
    /\ ~quizSubmitted
    /\ userAnswers[0] = <<0>>
    /\ userAnswers[1] = <<2>>

\* C14: after submission the score is the number of questions whose selection
\* is, as a set, its correctAnswers; it lies in 0..quiz.length and equals
\* quiz.length exactly when every question is answered exactly.
C14_ScoreCountsExactMatches ==
    (quizHost = "interactive" /\ quizSubmitted) =>
        LET exact == {qIdx \in QuestionIndexes(learnerQuiz) :
                         Range(userAnswers[qIdx]) = Range(learnerQuiz[qIdx + 1].correctAnswers)}
        IN  /\ Score = Cardinality(exact)
            /\ Score \in 0..Len(learnerQuiz)
            /\ (Score = Len(learnerQuiz)) <=> (exact = QuestionIndexes(learnerQuiz))

\* A submitted quiz with one exact answer, given in another order than
\* correctAnswers lists it, and one strict superset: the score is 1.
C14_Witness ==
    /\ quizHost = "interactive" /\ quizSubmitted
    /\ learnerQuiz[1].correctAnswers = <<0>>
    /\ userAnswers[0] = <<0, 1>>
    /\ learnerQuiz[2].correctAnswers = <<2, 1>>
    /\ userAnswers[1] = <<1, 2>>
    /\ Score = 1

\* ------------------------------------------------------- claims: authoring

\* The arguments that address a quiz lesson of the course and one of its questions.
QuestionPaths ==
    {p \in ModuleIdArgs \X LessonIdArgs \X IndexArgs :
        LET found == FindLesson(course, p[1], p[2])
        IN  /\ found # <<>>
            /\ found[1].quiz.def
            /\ p[3] + 1 \in 1..Len(found[1].quiz.qs)}

\* The arguments that address a lesson of the course, and those that address none.
LessonPaths == {p \in ModuleIdArgs \X LessonIdArgs : FindLesson(course, p[1], p[2]) # <<>>}
MissingPaths == (ModuleIdArgs \X LessonIdArgs) \ LessonPaths

\* C15: for every quiz lesson of the course, every question index in range and
\* every option index, toggleQuizAnswer applied twice gives the question the
\* correctAnswers set it had, and changes nothing else in the tree.
C15_ToggleTwiceRestores ==
    \A p \in QuestionPaths, oIdx \in IndexArgs :
        LET before == FindLesson(course, p[1], p[2])[1].quiz.qs
            once   == ToggleQuizAnswerTree(course, p[1], p[2], p[3], oIdx)
            twice  == ToggleQuizAnswerTree(once, p[1], p[2], p[3], oIdx)
            after  == FindLesson(twice, p[1], p[2])[1].quiz.qs
        IN  /\ ~ToggleQuizAnswerThrows(once, p[1], p[2], p[3])
            /\ Range(after[p[3] + 1].correctAnswers) = Range(before[p[3] + 1].correctAnswers)
            /\ SetLessonField(twice, p[1], p[2], "quiz",
                   QuizOf([after EXCEPT ![p[3] + 1].correctAnswers =
                              before[p[3] + 1].correctAnswers])) = course

\* The author ticked a checkbox and unticked it again: the course is the one
\* the session started with.
C15_Witness ==
    /\ edits = 2
    /\ lastEdit = EditOutcome("toggleQuizAnswer", "changed")
    /\ course = AuthoringCourse

\* C16: every question of every quiz of the course has at least 2 options and
\* between 1 and N correct indexes, all smaller than its number of options.
C16_QuestionsWellFormed ==
    \A p \in QuestionPaths :
        LET q == FindLesson(course, p[1], p[2])[1].quiz.qs[p[3] + 1]
        IN  /\ Len(q.options) >= 2
            /\ Range(q.correctAnswers) # {}
            /\ Len(q.correctAnswers) <= Len(q.options)
            /\ \A a \in Range(q.correctAnswers) : a < Len(q.options)

\* C17: writing a course, module or lesson title or a lesson content at an
\* existing node makes the field read as written, leaves the rest of the tree
\* (ids, order, other nodes, other fields) as it was, and is idempotent.
C17_FieldEditsIsolated ==
    /\ \A text \in TypedTexts :
          LET t == SetCourseTitleTree(course, text)
          IN  /\ t.title = text
              /\ [t EXCEPT !.title = course.title] = course
              /\ SetCourseTitleTree(t, text) = t
    /\ \A i \in 1..Len(course.modules), text \in TypedTexts :
          LET id == course.modules[i].id
              t  == SetModuleTitleTree(course, id, text)
          IN  /\ t.modules[i].title = text
              /\ [t EXCEPT !.modules[i].title = course.modules[i].title] = course
              /\ SetModuleTitleTree(t, id, text) = t
    /\ \A p \in LessonPaths, text \in TypedTexts :
          LET old == FindLesson(course, p[1], p[2])[1]
              t   == SetLessonTitleTree(course, p[1], p[2], text)
              u   == UpdateLessonContentTree(course, p[1], p[2], text)
          IN  /\ FindLesson(t, p[1], p[2])[1].title = text
              /\ SetLessonField(t, p[1], p[2], "title", old.title) = course
              /\ SetLessonTitleTree(t, p[1], p[2], text) = t
              /\ FindLesson(u, p[1], p[2])[1].content = text
              /\ SetLessonField(u, p[1], p[2], "content", old.content) = course
              /\ UpdateLessonContentTree(u, p[1], p[2], text) = u

\* The title of the first module was typed over; the second module keeps its own.
C17_Witness ==
    /\ lastEdit = EditOutcome("moduleTitle", "changed")
    /\ course.modules[1].title = "typed"
    /\ course.modules[2] = AuthoringCourse.modules[2]
    /\ course.modules[1].lessons = AuthoringCourse.modules[1].lessons

\* C18: every lesson-level mutation called with a module id or lesson id that
\* addresses no lesson, and deleteQuizQuestion called with an index outside the
\* quiz, raises nothing and returns a tree equal to the course.
C18_MissingPathIgnored ==
    /\ \A p \in MissingPaths, qIdx \in IndexArgs, oIdx \in IndexArgs, text \in TypedTexts :
          /\ UpdateLessonContentTree(course, p[1], p[2], text) = course
          /\ AddQuizQuestionTree(course, p[1], p[2]) = course
          /\ DeleteQuizQuestionTree(course, p[1], p[2], qIdx) = course
          /\ UpdateQuizQuestionTextTree(course, p[1], p[2], qIdx, text) = course
          /\ UpdateOptionTextTree(course, p[1], p[2], qIdx, oIdx, text) = course
          /\ AddOptionTree(course, p[1], p[2], qIdx) = course
          /\ ~ToggleQuizAnswerThrows(course, p[1], p[2], qIdx)
          /\ ToggleQuizAnswerTree(course, p[1], p[2], qIdx, oIdx) = course
    /\ \A p \in LessonPaths, qIdx \in IndexArgs :
          LET l == FindLesson(course, p[1], p[2])[1]
          IN  (l.quiz.def /\ qIdx + 1 \notin 1..Len(l.quiz.qs))
                  => DeleteQuizQuestionTree(course, p[1], p[2], qIdx) = course

\* deleteQuizQuestion was called on the quiz with an index it does not have,
\* and the course is still the one the session started with.
C18_Witness ==
    /\ edits = 1
    /\ lastEdit = EditOutcome("deleteQuizQuestion", "unchanged")
    /\ course = AuthoringCourse

\* C19: no authoring mutation raises an error, whatever ids and indexes it is
\* called with.
C19_MutationsNeverRaise == lastEdit.outcome # "raised"

\* ------------------------------------------------------- claims: payload kinds

\* C20: in every lesson of the course only the payload of the lesson's type is
\* populated: content for text, videoUrl for video, quiz for quiz, and for
\* interactive only interactiveData (a field no code writes), so none of the three.
C20_PayloadKindMatchesType ==
    \A i \in 1..Len(course.modules) :
        \A j \in 1..Len(course.modules[i].lessons) :
            LET l == course.modules[i].lessons[j]
            IN  /\ l.type # "text" => l.content = ""
                /\ l.type # "video" => l.videoUrl = ""
                /\ l.type # "quiz" => ~l.quiz.def

\* ------------------------------------------------------- claims: generation order

\* C27: the step in which a successful generateLessonBody call takes the lesson
\* id out of generatingLessonIds and clears loadingStatus leaves the generated
\* payload in the lesson, and the step in which a successful
\* startInteractiveGeneration call clears isGeneratingInteractive leaves the
\* assembled lesson surfaced.
C27_ResultBeforeFinished ==
    [][/\ lastEvent'.kind = "success" =>
              LET l == lastEvent'.lessonId
              IN  /\ LessonById(course', l) # <<>>
                  /\ PayloadOf(LessonById(course', l)[1]) = delivered'[l][1]
       /\ lastGen'.kind = "surfaced" =>
              /\ interactiveLesson' # NoLesson
              /\ interactiveLesson'.topic = LessonOf(lastGen'.n).topic
              /\ Len(interactiveLesson'.steps) = lastGen'.n
              /\ currentView' = "interactive_play"]_vars

\* A text lesson's generation just finished: its id is out of the in-flight set,
\* the banner is cleared and the lesson holds the generated text.
C27_Witness ==
    /\ lastEvent = Event("success", "l1")
    /\ "l1" \notin generatingLessonIds
    /\ loadingStatus = ""
    /\ LessonById(course, "l1")[1].content = "<p>a</p>"

\* C29: at most one startInteractiveGeneration call is running at any time.
C29_SingleAttempt == BagCardinality(attempts) <= 1

\* C28: when a generateLessonBody call for lesson L completes successfully, the
\* course after the completion is the course before it with L's generated
\* payload written in, and nothing else changed.
C28_EditsInFlightKept ==
    [][lastEvent'.kind = "success" =>
          LET l     == lastEvent'.lessonId
              type  == LessonById(course, l)[1].type
              field == IF type = "video" THEN "videoUrl"
                       ELSE IF type = "quiz" THEN "quiz" ELSE "content"
          IN  \E m \in ModuleIds :
                  course' = SetLessonField(course, m, l, field, delivered'[l][1])]_vars

\* ------------------------------------------------------- claims: narration

\* C30: in LMSPlayer a narration clip starts only while the player is mounted
\* and only for the lesson that is displayed.
C30_NarrationFollowsLesson ==
    [][(player = "lms" /\ lastAudio' \in {"started", "replaced"}) =>
          /\ mounted
          /\ \A lesson \in 1..PlayerItems :
                CopiesIn(lesson, narrationRequests') < CopiesIn(lesson, narrationRequests)
                    => lesson = position]_vars

\* ------------------------------------------------------- claims: malformed responses

\* C24: a response without the contracted shape ends the generateLessonBody
\* call as a failure and leaves the course as it was.
C24_MalformedNeverFolded ==
    [][lastEvent'.kind \in {"malformed-folded", "malformed-failed"} =>
          /\ lastEvent'.kind = "malformed-failed"
          /\ course' = course]_vars

\* ------------------------------------------------------- claims: audio decoding

\* C25: decoding a byte sequence whose length is not a whole multiple of
\* numChannels * 2 raises no error and returns the complete frames.
C25_PartialFrameDropped ==
    (decoded # NotDecoded /\ Len(audioBytes) % (numChannels * 2) # 0) =>
        /\ decoded.error = ""
        /\ decoded.frames = Len(audioBytes) \div (numChannels * 2)

\* C26: decoding a non-empty byte sequence whose length is a whole multiple of
\* numChannels * 2 gives (number of 16-bit samples) / numChannels frames per
\* channel; the sample of channel c and frame i is the signed little-endian
\* 16-bit number at sample index i * numChannels + c over 32768, its numerator
\* is in -32768..32767 and its value in [-1, 1); 0 decodes to 0 and 32767 to
\* 32767/32768.
C26_SamplesScaled ==
    (decoded # NotDecoded /\ Len(audioBytes) % (numChannels * 2) = 0) =>
        /\ decoded.error = ""
        /\ decoded.frames * numChannels = Len(audioBytes) \div 2
        /\ \A c \in 0..(numChannels - 1), i \in 0..(decoded.frames - 1) :
              LET k      == i * numChannels + c
                  lo     == audioBytes[2 * k + 1]
                  hi     == audioBytes[2 * k + 2]
                  sample == decoded.channelData[c][i]
              IN  /\ sample.den = 32768
                  /\ (sample.num - (lo + 256 * hi)) % 65536 = 0
                  /\ sample.num \in -32768..32767
                  /\ -sample.den <= sample.num /\ sample.num < sample.den
                  /\ (lo = 0 /\ hi = 0) => sample.num = 0
                  /\ (lo = 255 /\ hi = 127) => sample.num = 32767

\* A one-channel clip holding the largest and the smallest sample was decoded.
C26_Witness ==
    /\ audioBytes = <<255, 127, 0, 128>>
    /\ numChannels = 1
    /\ decoded.error = ""
    /\ decoded.channelData[0][0] = Sample(32767)
    /\ decoded.channelData[0][1] = Sample(-32768)

\* ------------------------------------------------------- claims: course library

\* C21: when a handleInitialGeneration call ends whose structure request had
\* succeeded, a course is active with the title, description, modules and
\* lesson stubs of the structure response and every lesson payload empty; when
\* it ends because the structure request failed, the course is as before and
\* isGenerating is false.
C21_StructureGivesCourse ==
    [][\A frame \in BagToSet(creations) :
          (/\ CopiesIn(frame, creations') < CopiesIn(frame, creations)
           /\ lastLibrary'.kind \in {"created", "create-failed"})
          => IF frame.pc = "thumbnail"
             THEN /\ course' # NoCourse
                  /\ \E thumbnail \in ThumbnailResults :
                        course' = CourseFromStructure(course'.id, frame.structure, thumbnail)
                  /\ \A m \in 1..Len(course'.modules) :
                        \A k \in 1..Len(course'.modules[m].lessons) :
                           ~HasContent(course'.modules[m].lessons[k])
             ELSE /\ course' = course
                  /\ ~isGenerating']_vars

\* C22: after every change of the builder's course the persisted collection
\* holds exactly one entry with the course's id, equal to the course, and the
\* entries with other ids are the same as before, in the same order.
C22_SnapshotAfterMutation ==
    [][(course' # course /\ course' # NoCourse) =>
          /\ EntriesOf(stored', course'.id) = <<course'>>
          /\ OthersOf(stored', course'.id) = OthersOf(stored, course'.id)
          /\ \A i, j \in 1..Len(stored') : stored'[i].id = stored'[j].id => i = j]_vars

\* The title of the second course of the collection was just edited.
C22_Witness ==
    /\ lastLibrary.kind = "edit"
    /\ Len(stored) = 2
    /\ stored[2] = course
    /\ course.title = "A"
    /\ stored[1].id # course.id

\* C23: the persisted entry of a course is removed only by deleteCourse of
\* that course, and changes only in a step that acts on that course.
C23_OnlyDeleteDestroys ==
    [][\A x \in CourseIds :
          (EntriesOf(stored, x) # <<>> /\ EntriesOf(stored', x) # EntriesOf(stored, x)) =>
             /\ lastLibrary'.id = x
             /\ EntriesOf(stored', x) = <<>> => lastLibrary'.kind = "deleted"]_vars

====
